---- MODULE Spec2Model ----
(***************************************************************************)
(* Model of the scheduling core of pm-bot-enterprise:                      *)
(*   - ModuleManager (core/module_manager.py): dependency resolver,        *)
(*     execution phases, cycle breaking, critical path;                    *)
(*   - the second ModuleManager defined at the end of                      *)
(*     core/task_orchestrator.py (the one TaskOrchestrator instantiates);  *)
(*   - TaskOrchestrator (core/task_orchestrator.py): task plan builder     *)
(*     and the round-based executor of a task plan;                        *)
(*   - AgentSpawner (core/agent_spawner.py): agent locks and task          *)
(*     execution;                                                          *)
(*   - PMBotEnterprise.execute_project (core/pm_bot.py): phase executor.   *)
(*                                                                         *)
(* Module names are opaque strings in the program.  Nothing in the code    *)
(* compares two names, so a name is modelled by the rank of its insertion  *)
(* into the dict of module specs: name i is the i-th key.  A dict is       *)
(* iterated in insertion order, that is in ascending rank; a set of names  *)
(* is iterated in the order of the process's string hashes (hashOrder).    *)
(***************************************************************************)
EXTENDS Integers, Sequences, FiniteSets, TLC

\* ------------------------------------------------------------------ bounds
MaxDeps == 2
MaxEdges == 3
MaxCalls == 2
MaxAgents == 2
MaxTokens == 3
MaxOps == 5
MaxTasks == 2
MaxQueue == 2
MaxHeld == 2
MaxAssignments == 2
MaxCollabs == 1

\* ------------------------------------------------------------ data universe
ModuleNames == {1, 2, 3}
\* 0 names a module that is never part of the module set (an external dependency)
DepNames == {0} \cup ModuleNames

Range(s) == {s[i] : i \in DOMAIN s}

NoDup(s) == \A i, j \in DOMAIN s : i # j => s[i] # s[j]

DepLists == UNION {{s \in [1..n -> DepNames] : NoDup(s)} : n \in 0..MaxDeps}

Perms(S) == {s \in [1..Cardinality(S) -> S] : NoDup(s)}

\* dependency maps of the modules 1..n with at most budget dependencies in all
RECURSIVE DepMaps(_, _)
DepMaps(n, budget) ==
    IF n = 0 THEN {<<>>}
    ELSE UNION {{Append(g, d) : g \in DepMaps(n - 1, budget - Len(d))} :
                   d \in {e \in DepLists : Len(e) <= budget}}

\* the dependency maps a project can hand to the resolver
SpecSets == UNION {DepMaps(n, MaxEdges) : n \in ModuleNames}

VARIABLES
    modules_specs,         \* the module specs of the project (name -> dependencies)
    hashOrder,             \* iteration order of a set of names in this process
    modules,               \* ModuleManager.modules (name -> ModuleState)
    execution_order,       \* ModuleManager.execution_order
    critical_path,         \* ModuleManager.critical_path
    forced_phases,         \* indices of the phases logged "Possible dependency cycle detected"
    iteration,             \* value of the loop counter when _calculate_execution_plan left its loop
    calls,                 \* number of register_modules calls made
    prev_execution_order,  \* execution_order before the last call
    prev_critical_path,    \* critical_path before the last call
    returned_plan,         \* value returned by the last create_execution_plan
    orch_called,           \* the orchestrator's own ModuleManager has been asked for a plan
    orch_phases,           \* phases returned by the orchestrator's ModuleManager.create_execution_plan
    orch_critical_path,    \* path returned by the orchestrator's ModuleManager.calculate_critical_path
    agents,                \* the AgentConfig objects handed to execute_module (role, status)
    registered,            \* the agents are in active_agents of the orchestrator's AgentSpawner
    tasks,                 \* the task plan of the module (AgentTask objects)
    completed_tasks,       \* _execute_task_plan: completed_tasks
    results,               \* _execute_task_plan: results (ids of the tasks whose result it holds)
    batch_tasks,           \* _execute_task_plan: batch_tasks of the round in flight
    co,                    \* state of the coroutine of each task of the batch
    exec_pc,               \* position of execute_module
    execution_state,       \* execute_module: execution_state (status, progress)
    final_result,          \* status of the result execute_module returned
    gen_failed,            \* ids of the tasks whose generate_response call failed
    max_concurrent,        \* TaskOrchestrator.max_concurrent_tasks of this orchestrator
    deferred,              \* ids of the tasks that were ready in a round but left out of its batch
    agents_needed,         \* number of roles in agents_needed of each ModuleSpec of the project
    project_agents,        \* project.agents: number of agents spawned for each module
    project_status,        \* project.status
    phase_idx,             \* execute_project: index of the phase of the loop
    mod_exec,              \* execute_project: state of the execute_module coroutine of each module
    proj_pc,               \* position of execute_project
    exec_result,           \* how execute_project ended: returned True or False, or raised
    selection,             \* the last select_optimal_agent call: its task and the value returned
    prev_selection,        \* the select_optimal_agent call before the last
    last_estimate,         \* the last get_cost_estimate call: its arguments and its result
    prev_estimate,         \* the get_cost_estimate call before the last
    ops,                   \* number of calls made on the ModuleManager after the registration
    last_op,               \* the last of these calls: method, module name, value returned, status before
    terminated,            \* ids terminate_agent has removed from AgentSpawner.active_agents
    launches,              \* ids of the tasks handed to _execute_single_task, in order
    pause_log,             \* progress each module had when pause_module last found it in
                           \* progress, and whether the module was reset since
    paused_executions,     \* modules whose entry of active_executions has status paused
    project_call,          \* the last pause_project or resume_project call and what it returned
    routes,                \* MessageRouter.routes: ids of the registered agents
    resource_locks,        \* ResourceManager.resource_locks: owner of each resource, 0 when unlocked
    resource_queues,       \* ResourceManager.resource_queues: waiting agents of each resource
    held,                  \* EnhancedAgent.resource_locks of each agent
    resource_call,         \* the last request_resource or release_resource call and what it returned
    agent_status,          \* EnhancedAgent.status of each agent
    active_tasks,          \* EnhancedAgent.active_tasks of each agent: status of each task, none when absent
    task_pc,               \* position of the _execute_task coroutine of each task of each agent
    next_task,             \* number of the next task id
    active_collaborations, \* EnhancedAgent.active_collaborations of each agent: status by collaboration id
    collaborations_successful, \* metrics["collaborations_successful"] of each agent
    protocol_collaborations    \* CollaborationProtocol.active_collaborations, by collaboration id

resolverVars == <<modules_specs, hashOrder, modules, execution_order, critical_path,
                  forced_phases, iteration, calls, prev_execution_order,
                  prev_critical_path, returned_plan, orch_called, orch_phases,
                  orch_critical_path>>

planVars == <<agents, registered, tasks, completed_tasks, results, batch_tasks, co,
              exec_pc, execution_state, final_result, gen_failed, max_concurrent, deferred>>

projVars == <<agents_needed, project_agents, project_status, phase_idx, mod_exec, proj_pc,
              exec_result>>

routerVars == <<selection, prev_selection, last_estimate, prev_estimate>>

opsVars == <<ops, last_op, pause_log>>

spawnerVars == <<terminated, launches>>

pauseVars == <<paused_executions, project_call>>

resourceVars == <<routes, resource_locks, resource_queues, held, resource_call>>

agentVars == <<agent_status, active_tasks, task_pc, next_task>>

collabVars == <<active_collaborations, collaborations_successful, protocol_collaborations>>

mcpVars == <<resourceVars, agentVars, collabVars>>

coreVars == <<resolverVars, planVars, projVars, routerVars, opsVars, spawnerVars, pauseVars>>

extVars == <<pauseVars, mcpVars>>

vars == <<resolverVars, planVars, projVars, routerVars, opsVars, spawnerVars, pauseVars, mcpVars>>

\* ------------------------------------------------------------ iteration order
\* keys of a dict, in insertion order
DictKeys(d) ==
    SelectSeq([i \in 1..Cardinality(ModuleNames) |-> i], LAMBDA x : x \in DOMAIN d)

\* elements of a set of names, in the order a for loop meets them
SetIter(S) == SelectSeq(hashOrder, LAMBDA x : x \in S)

\* ------------------------------------------------------------ ModuleManager
\* metrics holds paused_progress when the key is set (<<>> when it is not); a
\* blocker is the name of a module, or -m for the marker dependency_failed:m
NewModuleState(spec) ==
    [dependencies |-> spec, status |-> "planned", blockers |-> <<>>, progress |-> 0,
     paused_progress |-> <<>>]

ModuleDeps(mods) == [name \in DOMAIN mods |-> mods[name].dependencies]

ValidDepsAll(module_deps, module) == module_deps[module]

ValidDeps(module_deps, module) ==
    SelectSeq(module_deps[module], LAMBDA dep : dep \in DOMAIN module_deps)

PendingDeps(module_deps, completed_modules, module) ==
    SelectSeq(ValidDeps(module_deps, module), LAMBDA dep : dep \notin completed_modules)

DependenciesAlwaysMet(mods, module_name) == module_name \in DOMAIN mods

check_dependencies_met(mods, module_name) ==
    /\ module_name \in DOMAIN mods
    /\ \A i \in DOMAIN mods[module_name].dependencies :
          LET dep == mods[module_name].dependencies[i]
          IN dep \in DOMAIN mods => mods[dep].status = "completed"

check_and_update_status(mods, module_name) ==
    IF module_name \notin DOMAIN mods THEN mods
    ELSE IF mods[module_name].status \in {"planned", "waiting_dependency"}
            /\ check_dependencies_met(mods, module_name)
         THEN [mods EXCEPT ![module_name].status = "ready"]
         ELSE mods

RECURSIVE UpdateStatusOfAll(_, _)
UpdateStatusOfAll(mods, names) ==
    IF names = <<>> THEN mods
    ELSE UpdateStatusOfAll(check_and_update_status(mods, Head(names)), Tail(names))

ReadyModulesAll(remaining_modules, module_deps, completed_modules) ==
    SetIter(remaining_modules)

ReadyModulesAny(remaining_modules, module_deps, completed_modules) ==
    SelectSeq(SetIter(remaining_modules),
              LAMBDA module :
                 LET valid_deps == ValidDeps(module_deps, module)
                 IN valid_deps = <<>>
                    \/ \E i \in DOMAIN valid_deps : valid_deps[i] \in completed_modules)

ReadyModules(remaining_modules, module_deps, completed_modules) ==
    SelectSeq(SetIter(remaining_modules),
              LAMBDA module :
                 LET valid_deps == ValidDeps(module_deps, module)
                 IN \A i \in DOMAIN valid_deps : valid_deps[i] \in completed_modules)

\* the loop of _break_dependency_cycle: best is <<>> for None
RECURSIVE BestCandidate(_, _, _, _, _)
BestCandidate(it, module_deps, completed_modules, best, min_pending_deps) ==
    IF it = <<>> THEN best
    ELSE LET module == Head(it)
             n == Len(PendingDeps(module_deps, completed_modules, module))
         IN IF best = <<>> \/ n < min_pending_deps
            THEN BestCandidate(Tail(it), module_deps, completed_modules, <<module>>, n)
            ELSE BestCandidate(Tail(it), module_deps, completed_modules, best, min_pending_deps)

break_dependency_cycle(remaining_modules, module_deps, completed_modules) ==
    BestCandidate(SetIter(remaining_modules), module_deps, completed_modules, <<>>, 0)

\* the blockers _break_dependency_cycle records on the module it selects
RecordBlockers(mods, best, module_deps, completed_modules) ==
    IF best # <<>> /\ best[1] \in DOMAIN mods
    THEN [mods EXCEPT ![best[1]].blockers =
              @ \o PendingDeps(module_deps, completed_modules, best[1])]
    ELSE mods

ForcedPhaseAll(remaining_modules, cycle_breaker) == SetIter(remaining_modules)

\* ready_modules when no module is ready
ForcedPhase(remaining_modules, cycle_breaker) ==
    IF cycle_breaker # <<>> THEN cycle_breaker
    ELSE <<Head(SetIter(remaining_modules))>>

RECURSIVE PlanLoop(_, _, _, _, _, _)
PlanLoop(mods, phases, forced, remaining_modules, completed_modules, iter) ==
    LET module_deps == ModuleDeps(mods)
        max_iterations == Cardinality(DOMAIN module_deps) + 1
    IN IF remaining_modules = {} \/ iter >= max_iterations
       THEN [modules |-> mods, phases |-> phases, forced |-> forced,
             remaining |-> remaining_modules, iteration |-> iter]
       ELSE LET ready == ReadyModules(remaining_modules, module_deps, completed_modules)
                cycle == ready = <<>>
                cycle_breaker ==
                    break_dependency_cycle(remaining_modules, module_deps, completed_modules)
                ready_modules ==
                    IF cycle THEN ForcedPhase(remaining_modules, cycle_breaker) ELSE ready
                mods1 ==
                    IF cycle
                    THEN RecordBlockers(mods, cycle_breaker, module_deps, completed_modules)
                    ELSE mods
                mods2 == UpdateStatusOfAll(mods1, ready_modules)
            IN PlanLoop(mods2,
                        Append(phases, ready_modules),
                        IF cycle THEN forced \cup {Len(phases) + 1} ELSE forced,
                        remaining_modules \ Range(ready_modules),
                        completed_modules \cup Range(ready_modules),
                        iter + 1)

RECURSIVE get_longest_path(_, _, _)
RECURSIVE LongestOverDeps(_, _, _, _, _)
get_longest_path(mods, module_name, visited) ==
    IF module_name \in visited \/ module_name \notin DOMAIN mods THEN <<>>
    ELSE LongestOverDeps(mods, module_name, mods[module_name].dependencies,
                         visited \cup {module_name}, <<module_name>>)

LongestOverDeps(mods, module_name, deps, visited, max_path) ==
    IF deps = <<>> THEN max_path
    ELSE LET dep == Head(deps)
             dep_path == get_longest_path(mods, dep, visited)
         IN LongestOverDeps(mods, module_name, Tail(deps), visited,
                IF dep \in DOMAIN mods /\ Len(dep_path) + 1 > Len(max_path)
                THEN <<module_name>> \o dep_path
                ELSE max_path)

RECURSIVE LongestOfAllLast(_, _, _)
LongestOfAllLast(mods, names, longest_path) ==
    IF names = <<>> THEN longest_path
    ELSE LET path == get_longest_path(mods, Head(names), {})
         IN LongestOfAllLast(mods, Tail(names),
                IF Len(path) >= Len(longest_path) THEN path ELSE longest_path)

RECURSIVE LongestOfAll(_, _, _)
LongestOfAll(mods, names, longest_path) ==
    IF names = <<>> THEN longest_path
    ELSE LET path == get_longest_path(mods, Head(names), {})
         IN LongestOfAll(mods, Tail(names),
                IF Len(path) > Len(longest_path) THEN path ELSE longest_path)

calculate_critical_path(mods) == LongestOfAll(mods, DictKeys(mods), <<>>)

calculate_execution_plan(mods) ==
    LET r == PlanLoop(mods, <<>>, {}, DOMAIN mods, {}, 0)
    IN [modules |-> r.modules, phases |-> r.phases, forced |-> r.forced,
        remaining |-> r.remaining, iteration |-> r.iteration,
        critical_path |-> calculate_critical_path(r.modules)]

\* the first loop of register_modules
RegisterSpecs(mods, specs) ==
    [name \in DOMAIN mods \cup DOMAIN specs |->
        IF name \notin DOMAIN specs THEN mods[name]
        ELSE IF name \notin DOMAIN mods THEN NewModuleState(specs[name])
        ELSE [mods[name] EXCEPT !.dependencies = specs[name]]]

StoreExecutionOrderExtend(old, phases) == old \o phases

\* self.execution_order = phases
StoreExecutionOrder(old, phases) == phases

register_modules(specs) ==
    LET r == calculate_execution_plan(RegisterSpecs(modules, specs))
    IN /\ modules' = r.modules
       /\ execution_order' = StoreExecutionOrder(execution_order, r.phases)
       /\ critical_path' = r.critical_path
       /\ forced_phases' = r.forced
       /\ iteration' = r.iteration
       /\ prev_execution_order' = execution_order
       /\ prev_critical_path' = critical_path
       /\ calls' = calls + 1

create_execution_plan ==
    /\ calls < MaxCalls
    /\ register_modules(modules_specs)
    /\ returned_plan' = execution_order'
    /\ UNCHANGED <<modules_specs, hashOrder, orch_called, orch_phases, orch_critical_path>>
    /\ UNCHANGED planVars
    /\ UNCHANGED projVars
    /\ UNCHANGED routerVars
    /\ UNCHANGED opsVars
    /\ UNCHANGED spawnerVars
    /\ UNCHANGED extVars

\* ------------------------------------ ModuleManager of core/task_orchestrator.py
RECURSIVE OrchPlanLoop(_, _, _, _)
OrchPlanLoop(module_deps, phases, remaining_modules, completed_modules) ==
    IF remaining_modules = {} THEN phases
    ELSE LET ready == ReadyModules(remaining_modules, module_deps, completed_modules)
             ready_modules ==
                 IF ready = <<>> THEN <<Head(SetIter(remaining_modules))>> ELSE ready
         IN OrchPlanLoop(module_deps, Append(phases, ready_modules),
                         remaining_modules \ Range(ready_modules),
                         completed_modules \cup Range(ready_modules))

OrchCreateExecutionPlan(module_deps) == OrchPlanLoop(module_deps, <<>>, DOMAIN module_deps, {})

OrchCalculateCriticalPath(graph) ==
    LET mods == [name \in DOMAIN graph |-> NewModuleState(graph[name])]
    IN LongestOfAll(mods, DictKeys(mods), <<>>)

orch_create_execution_plan ==
    /\ ~orch_called
    /\ orch_called' = TRUE
    /\ orch_phases' = OrchCreateExecutionPlan(modules_specs)
    /\ orch_critical_path' = OrchCalculateCriticalPath(modules_specs)
    /\ UNCHANGED <<modules_specs, hashOrder, modules, execution_order, critical_path,
                   forced_phases, iteration, calls, prev_execution_order,
                   prev_critical_path, returned_plan>>
    /\ UNCHANGED planVars
    /\ UNCHANGED projVars
    /\ UNCHANGED routerVars
    /\ UNCHANGED opsVars
    /\ UNCHANGED spawnerVars
    /\ UNCHANGED extVars

\* ------------------------------------------------------------ TaskOrchestrator
max_concurrent_tasks == 10

\* the attribute is set to max_concurrent_tasks by __init__ and can be lowered on
\* the orchestrator before a module is executed
ConcurrencyLimits == {1, 2, max_concurrent_tasks}

Roles == {"backend", "frontend", "fullstack", "qa", "devops", "mobile", "security"}

\* the agent lists execute_module can be handed: a spawned agent is idle, an agent
\* whose last task failed has been left in status error
AgentLists ==
    UNION {[1..n -> [role : Roles, status : {"idle", "error"}]] : n \in 0..MaxAgents}

task_sequences ==
    [backend   |-> <<"design", "implement", "test", "review">>,
     frontend  |-> <<"design", "implement", "test", "review">>,
     fullstack |-> <<"design", "implement_backend", "implement_frontend", "integrate",
                     "test", "review">>,
     mobile    |-> <<"design", "implement", "test", "review">>,
     qa        |-> <<"plan", "implement", "execute", "report">>,
     deploy    |-> <<"plan", "configure", "deploy", "monitor">>]

task_role_mapping ==
    [design             |-> <<"backend", "frontend", "fullstack">>,
     implement          |-> <<"backend", "frontend", "fullstack">>,
     implement_backend  |-> <<"backend", "fullstack">>,
     implement_frontend |-> <<"frontend", "fullstack">>,
     integrate          |-> <<"fullstack", "backend">>,
     test               |-> <<"qa", "backend", "frontend">>,
     review             |-> <<"backend", "frontend", "fullstack">>,
     plan               |-> <<"qa", "devops">>,
     configure          |-> <<"devops">>,
     deploy             |-> <<"devops">>,
     monitor            |-> <<"devops">>,
     execute            |-> <<"qa">>,
     report             |-> <<"qa">>]

dependency_rules ==
    [design             |-> <<>>,
     plan               |-> <<>>,
     implement          |-> <<"design">>,
     implement_backend  |-> <<"design">>,
     implement_frontend |-> <<"design">>,
     integrate          |-> <<"implement_backend", "implement_frontend">>,
     test               |-> <<"implement", "implement_backend", "implement_frontend",
                              "integrate">>,
     review             |-> <<"test">>,
     configure          |-> <<"plan">>,
     deploy             |-> <<"configure">>,
     monitor            |-> <<"deploy">>,
     execute            |-> <<"implement">>,
     report             |-> <<"execute">>]

determine_module_type(ags) ==
    LET roles == {ags[i].role : i \in DOMAIN ags}
    IN IF "qa" \in roles THEN "qa"
       ELSE IF "devops" \in roles THEN "deploy"
       ELSE IF "mobile" \in roles THEN "mobile"
       ELSE IF "fullstack" \in roles THEN "fullstack"
       ELSE IF "frontend" \in roles /\ "backend" \in roles THEN "fullstack"
       ELSE IF "frontend" \in roles THEN "frontend"
       ELSE "backend"

\* index of the first idle agent whose role is one of roles, <<>> when there is none
FirstIdleAgent(ags, roles) ==
    IF \E i \in DOMAIN ags : ags[i].role \in roles /\ ags[i].status = "idle"
    THEN <<CHOOSE i \in DOMAIN ags :
              /\ ags[i].role \in roles /\ ags[i].status = "idle"
              /\ \A j \in 1..(i - 1) : ~(ags[j].role \in roles /\ ags[j].status = "idle")>>
    ELSE <<>>

RECURSIVE AgentOfRoles(_, _)
AgentOfRoles(ags, preferred_roles) ==
    IF preferred_roles = <<>> THEN <<>>
    ELSE LET a == FirstIdleAgent(ags, {Head(preferred_roles)})
         IN IF a # <<>> THEN a ELSE AgentOfRoles(ags, Tail(preferred_roles))

\* <<>> is None
assign_agent_to_task(task_type, ags) ==
    LET preferred == AgentOfRoles(ags, task_role_mapping[task_type])
    IN IF preferred # <<>> THEN preferred
       ELSE FirstIdleAgent(ags, Roles)

\* the rules applied without looking whether the plan holds a task of the type
ConfigureAllRules(plan) ==
    [i \in DOMAIN plan |->
        [plan[i] EXCEPT !.dependencies = dependency_rules[plan[i].task_type]]]

configure_task_dependencies(plan) ==
    LET task_by_type == {plan[i].task_type : i \in DOMAIN plan}
    IN [i \in DOMAIN plan |->
           [plan[i] EXCEPT !.dependencies =
               SelectSeq(dependency_rules[plan[i].task_type],
                         LAMBDA dep_type : dep_type \in task_by_type)]]

create_module_task_plan(ags) ==
    LET sequence == task_sequences[determine_module_type(ags)]
        created == [i \in DOMAIN sequence |->
                       [id           |-> sequence[i],
                        task_type    |-> sequence[i],
                        agent_id     |-> assign_agent_to_task(sequence[i], ags),
                        priority     |-> 10 - (i - 1),
                        dependencies |-> <<>>,
                        status       |-> "pending"]]
        task_plan == SelectSeq(created, LAMBDA task : task.agent_id # <<>>)
    IN configure_task_dependencies(task_plan)

TaskIndex(id) == CHOOSE i \in DOMAIN tasks : tasks[i].id = id

ReadyTasks ==
    SelectSeq(tasks,
              LAMBDA task :
                 /\ task.id \notin completed_tasks
                 /\ \A k \in DOMAIN task.dependencies :
                       task.dependencies[k] \in completed_tasks)

MinFirst(a, b) == a

Min(a, b) == IF a < b THEN a ELSE b

\* execute_module up to the first pass of the loop of _execute_task_plan
execute_module ==
    /\ exec_pc = "start"
    /\ tasks' = create_module_task_plan(agents)
    /\ execution_state' = [status |-> "running", progress |-> 0]
    /\ exec_pc' = "loop"
    /\ UNCHANGED <<agents, registered, completed_tasks, results, batch_tasks, co,
                   final_result, gen_failed, max_concurrent, deferred>>
    /\ UNCHANGED resolverVars
    /\ UNCHANGED projVars
    /\ UNCHANGED routerVars
    /\ UNCHANGED opsVars
    /\ UNCHANGED spawnerVars
    /\ UNCHANGED extVars

RoundStartsWithoutBreak == Cardinality(completed_tasks) < Len(tasks)

\* the while condition holds and the loop is not left by the break on no ready task
RoundStarts == Cardinality(completed_tasks) < Len(tasks) /\ ReadyTasks # <<>>

\* one pass of the while loop up to asyncio.gather, or the end of the loop
begin_round ==
    /\ exec_pc = "loop"
    /\ IF RoundStarts
       THEN LET batch_size == Min(Len(ReadyTasks), max_concurrent)
            IN /\ batch_tasks' = [i \in 1..batch_size |-> ReadyTasks[i].id]
               /\ co' = [i \in 1..batch_size |-> "created"]
               /\ deferred' = deferred \cup
                                 {ReadyTasks[i].id : i \in (batch_size + 1)..Len(ReadyTasks)}
               /\ exec_pc' = "gather"
       ELSE /\ exec_pc' = "return"
            /\ UNCHANGED <<batch_tasks, co, deferred>>
    /\ UNCHANGED <<agents, registered, tasks, completed_tasks, results,
                   execution_state, final_result, gen_failed, max_concurrent>>
    /\ UNCHANGED resolverVars
    /\ UNCHANGED projVars
    /\ UNCHANGED routerVars
    /\ UNCHANGED opsVars
    /\ UNCHANGED spawnerVars
    /\ UNCHANGED extVars

AssignableAnyStatus(agent_id) ==
    /\ registered
    /\ agent_id \in DOMAIN agents
    /\ agent_id \notin terminated

\* assign_task_to_agent returns True
Assignable(agent_id) ==
    /\ registered
    /\ agent_id \in DOMAIN agents
    /\ agent_id \notin terminated
    /\ agents[agent_id].status = "idle"

\* _execute_single_task of the next task of the batch, up to its await of
\* generate_response: the coroutines of a gather start in the order of the batch
start_task ==
    /\ exec_pc = "gather"
    /\ \E i \in DOMAIN co :
          /\ co[i] = "created"
          /\ \A j \in 1..(i - 1) : co[j] # "created"
          /\ launches' = Append(launches, batch_tasks[i])
          /\ LET t == TaskIndex(batch_tasks[i])
                 a == tasks[t].agent_id[1]
             IN IF Assignable(a)
                THEN /\ agents' = [agents EXCEPT ![a].status = "working"]
                     /\ tasks' = [tasks EXCEPT ![t].status = "in_progress"]
                     /\ co' = [co EXCEPT ![i] = "awaiting"]
                ELSE /\ co' = [co EXCEPT ![i] = "raised"]
                     /\ UNCHANGED <<agents, tasks>>
    /\ UNCHANGED <<registered, completed_tasks, results, batch_tasks, exec_pc,
                   execution_state, final_result, gen_failed, max_concurrent, deferred>>
    /\ UNCHANGED resolverVars
    /\ UNCHANGED projVars
    /\ UNCHANGED routerVars
    /\ UNCHANGED opsVars
    /\ UNCHANGED terminated
    /\ UNCHANGED extVars

\* generate_response returns: the rest of execute_agent_task
generation_returns ==
    /\ exec_pc = "gather"
    /\ \E i \in DOMAIN co :
          /\ co[i] = "awaiting"
          /\ LET t == TaskIndex(batch_tasks[i])
                 a == tasks[t].agent_id[1]
             IN /\ tasks' = [tasks EXCEPT ![t].status = "completed"]
                /\ agents' = [agents EXCEPT ![a].status = "idle"]
                /\ co' = [co EXCEPT ![i] = "returned"]
    /\ UNCHANGED <<registered, completed_tasks, results, batch_tasks, exec_pc,
                   execution_state, final_result, gen_failed, max_concurrent, deferred>>
    /\ UNCHANGED resolverVars
    /\ UNCHANGED projVars
    /\ UNCHANGED routerVars
    /\ UNCHANGED opsVars
    /\ UNCHANGED spawnerVars
    /\ UNCHANGED extVars

\* generate_response raises: the except branch of execute_agent_task
generation_fails ==
    /\ exec_pc = "gather"
    /\ \E i \in DOMAIN co :
          /\ co[i] = "awaiting"
          /\ LET t == TaskIndex(batch_tasks[i])
                 a == tasks[t].agent_id[1]
             IN /\ tasks' = [tasks EXCEPT ![t].status = "failed"]
                /\ agents' = [agents EXCEPT ![a].status = "error"]
                /\ co' = [co EXCEPT ![i] = "raised"]
                /\ gen_failed' = gen_failed \cup {batch_tasks[i]}
    /\ UNCHANGED <<registered, completed_tasks, results, batch_tasks, exec_pc,
                   execution_state, final_result, max_concurrent, deferred>>
    /\ UNCHANGED resolverVars
    /\ UNCHANGED projVars
    /\ UNCHANGED routerVars
    /\ UNCHANGED opsVars
    /\ UNCHANGED spawnerVars
    /\ UNCHANGED extVars

\* the tasks terminate_agent cancels: those of agent_tasks[agent_id] in progress
CancelledByTerminate(task, agent_id) ==
    task.agent_id = <<agent_id>> /\ task.status = "in_progress"

\* terminate_agent, called by another coroutine while the plan is executed
terminate_agent ==
    /\ exec_pc \in {"loop", "gather", "return"}
    /\ \E agent_id \in DOMAIN agents :
          IF registered /\ agent_id \notin terminated
          THEN /\ tasks' = [t \in DOMAIN tasks |->
                               IF CancelledByTerminate(tasks[t], agent_id)
                               THEN [tasks[t] EXCEPT !.status = "cancelled"]
                               ELSE tasks[t]]
               /\ terminated' = terminated \cup {agent_id}
          ELSE UNCHANGED <<tasks, terminated>>
    /\ UNCHANGED launches
    /\ UNCHANGED extVars
    /\ UNCHANGED <<agents, registered, completed_tasks, results, batch_tasks, co, exec_pc,
                   execution_state, final_result, gen_failed, max_concurrent, deferred>>
    /\ UNCHANGED resolverVars
    /\ UNCHANGED projVars
    /\ UNCHANGED routerVars
    /\ UNCHANGED opsVars

CompletedAfterRoundSuccessful ==
    completed_tasks \cup {batch_tasks[i] : i \in {k \in DOMAIN co : co[k] = "returned"}}

\* completed_tasks after the results of the batch are processed
CompletedAfterRound == completed_tasks \cup Range(batch_tasks)

\* asyncio.gather has returned: the results of the batch are processed
collect_round ==
    /\ exec_pc = "gather"
    /\ \A i \in DOMAIN co : co[i] \in {"returned", "raised"}
    /\ tasks' = [t \in DOMAIN tasks |->
                    IF \E i \in DOMAIN co : batch_tasks[i] = tasks[t].id
                    THEN LET i == CHOOSE k \in DOMAIN co : batch_tasks[k] = tasks[t].id
                         IN [tasks[t] EXCEPT !.status =
                                IF co[i] = "raised" THEN "failed" ELSE "completed"]
                    ELSE tasks[t]]
    /\ results' = results \o SelectSeq(batch_tasks,
                                LAMBDA id : co[CHOOSE k \in DOMAIN co : batch_tasks[k] = id]
                                               = "returned")
    /\ completed_tasks' = CompletedAfterRound
    /\ execution_state' =
          [execution_state EXCEPT
              \* in whole percent
              !.progress = (Cardinality(completed_tasks') * 100) \div Len(tasks)]
    /\ batch_tasks' = <<>>
    /\ co' = <<>>
    /\ exec_pc' = "loop"
    /\ UNCHANGED <<agents, registered, final_result, gen_failed, max_concurrent, deferred>>
    /\ UNCHANGED resolverVars
    /\ UNCHANGED projVars
    /\ UNCHANGED routerVars
    /\ UNCHANGED opsVars
    /\ UNCHANGED spawnerVars
    /\ UNCHANGED extVars

\* _execute_task_plan returns; _process_module_results; execute_module returns
finish_module ==
    /\ exec_pc = "return"
    /\ final_result' = "completed"
    /\ execution_state' = [status |-> "completed", progress |-> 100]
    /\ exec_pc' = "done"
    /\ UNCHANGED <<agents, registered, tasks, completed_tasks, results, batch_tasks, co,
                   gen_failed, max_concurrent, deferred>>
    /\ UNCHANGED resolverVars
    /\ UNCHANGED projVars
    /\ UNCHANGED routerVars
    /\ UNCHANGED opsVars
    /\ UNCHANGED spawnerVars
    /\ UNCHANGED extVars

\* ------------------------------------------------------------ PMBotEnterprise
Finished(m) == mod_exec[m] \in {"returned", "raised"}

GatherDoneAny(phase) == \E m \in Range(phase) : Finished(m)

\* asyncio.gather(*tasks, return_exceptions=True) has returned
GatherDone(phase) == \A m \in Range(phase) : Finished(m)

NoFailure(phase) == <<>>

\* the first result of the phase that is an exception, <<>> when there is none
FirstFailure(phase) ==
    IF \E i \in DOMAIN phase : mod_exec[phase[i]] = "raised"
    THEN <<CHOOSE i \in DOMAIN phase :
              /\ mod_exec[phase[i]] = "raised"
              /\ \A j \in 1..(i - 1) : mod_exec[phase[j]] # "raised">>
    ELSE <<>>

\* json.dump of project_data: an AgentConfig in project.agents is not serializable
SaveRaises == \E m \in DOMAIN project_agents : project_agents[m] > 0

\* execute_project up to the loop over the phases: the agents of every module are
\* spawned and the execution plan is made
begin_execute_project ==
    /\ proj_pc = "start"
    /\ project_status' = "in_progress"
    /\ project_agents' = [m \in DOMAIN modules_specs |-> agents_needed[m]]
    /\ register_modules(modules_specs)
    /\ returned_plan' = execution_order'
    /\ phase_idx' = 1
    /\ proj_pc' = "phase_loop"
    /\ UNCHANGED <<modules_specs, hashOrder, orch_called, orch_phases, orch_critical_path>>
    /\ UNCHANGED <<agents_needed, mod_exec, exec_result>>
    /\ UNCHANGED planVars
    /\ UNCHANGED routerVars
    /\ UNCHANGED opsVars
    /\ UNCHANGED spawnerVars
    /\ UNCHANGED extVars

\* one pass of the loop over the phases up to asyncio.gather; after the last
\* phase, execute_global_qa is called
start_phase ==
    /\ proj_pc = "phase_loop"
    /\ IF phase_idx <= Len(returned_plan)
       THEN /\ mod_exec' = [m \in DOMAIN mod_exec |->
                              IF m \in Range(returned_plan[phase_idx]) THEN "running"
                              ELSE mod_exec[m]]
            /\ proj_pc' = "gather"
       ELSE /\ proj_pc' = "global_qa"
            /\ UNCHANGED mod_exec
    /\ UNCHANGED <<agents_needed, project_agents, project_status, phase_idx, exec_result>>
    /\ UNCHANGED resolverVars
    /\ UNCHANGED planVars
    /\ UNCHANGED routerVars
    /\ UNCHANGED opsVars
    /\ UNCHANGED spawnerVars
    /\ UNCHANGED extVars

\* the execute_module coroutine of a module returns its result
module_returns ==
    /\ proj_pc = "gather"
    /\ \E m \in DOMAIN mod_exec :
          /\ mod_exec[m] = "running"
          /\ mod_exec' = [mod_exec EXCEPT ![m] = "returned"]
          /\ paused_executions' = paused_executions \ {m}
    /\ UNCHANGED <<agents_needed, project_agents, project_status, phase_idx, proj_pc,
                   exec_result>>
    /\ UNCHANGED resolverVars
    /\ UNCHANGED planVars
    /\ UNCHANGED routerVars
    /\ UNCHANGED opsVars
    /\ UNCHANGED spawnerVars
    /\ UNCHANGED project_call
    /\ UNCHANGED mcpVars

\* the execute_module coroutine of a module re-raises an exception
module_raises ==
    /\ proj_pc = "gather"
    /\ \E m \in DOMAIN mod_exec :
          /\ mod_exec[m] = "running"
          /\ mod_exec' = [mod_exec EXCEPT ![m] = "raised"]
          /\ paused_executions' = paused_executions \ {m}
    /\ UNCHANGED <<agents_needed, project_agents, project_status, phase_idx, proj_pc,
                   exec_result>>
    /\ UNCHANGED resolverVars
    /\ UNCHANGED planVars
    /\ UNCHANGED routerVars
    /\ UNCHANGED opsVars
    /\ UNCHANGED spawnerVars
    /\ UNCHANGED project_call
    /\ UNCHANGED mcpVars

\* asyncio.gather has returned: the results of the phase are verified and the
\* progress is updated; module.get of a ModuleSpec raises AttributeError, which
\* the except clause of execute_project handles
phase_results ==
    /\ proj_pc = "gather"
    /\ GatherDone(returned_plan[phase_idx])
    /\ IF FirstFailure(returned_plan[phase_idx]) # <<>>
       THEN /\ project_status' = "failed"
            /\ exec_result' = "false"
            /\ proj_pc' = "done"
            /\ UNCHANGED phase_idx
       ELSE IF DOMAIN modules_specs # {}
       THEN /\ project_status' = "failed"
            /\ exec_result' = IF SaveRaises THEN "raised" ELSE "false"
            /\ proj_pc' = "done"
            /\ UNCHANGED phase_idx
       ELSE /\ phase_idx' = phase_idx + 1
            /\ proj_pc' = "phase_loop"
            /\ UNCHANGED <<project_status, exec_result>>
    /\ UNCHANGED <<agents_needed, project_agents, mod_exec>>
    /\ UNCHANGED resolverVars
    /\ UNCHANGED planVars
    /\ UNCHANGED routerVars
    /\ UNCHANGED opsVars
    /\ UNCHANGED spawnerVars
    /\ UNCHANGED extVars

\* the executions of the project that are in active_executions: execute_module
\* adds its execution_state before its first await and archives it when it ends
ActiveExecutions == {m \in DOMAIN mod_exec : mod_exec[m] = "running"}

\* save_project_state at the end of pause_project and resume_project
SavedOrRaised == IF SaveRaises THEN "raised" ELSE "true"

\* pause_project(project_id) with pause_project_execution; known tells whether
\* project_id is a key of self.projects
pause_project ==
    \E known \in BOOLEAN :
       IF known /\ project_status = "in_progress"
       THEN /\ project_status' = "paused"
            /\ paused_executions' = ActiveExecutions
            /\ project_call' = [op |-> "pause", returned |-> SavedOrRaised]
            /\ UNCHANGED <<agents_needed, project_agents, phase_idx, mod_exec, proj_pc,
                           exec_result>>
            /\ UNCHANGED <<resolverVars, planVars, routerVars, opsVars, spawnerVars>>
            /\ UNCHANGED mcpVars
       ELSE /\ project_call' = [op |-> "pause", returned |-> "false"]
            /\ UNCHANGED paused_executions
            /\ UNCHANGED <<resolverVars, planVars, projVars, routerVars, opsVars,
                           spawnerVars>>
            /\ UNCHANGED mcpVars

\* resume_project(project_id) with resume_project_execution
resume_project ==
    \E known \in BOOLEAN :
       IF known /\ project_status = "paused"
       THEN /\ project_status' = "in_progress"
            /\ paused_executions' = {}
            /\ project_call' = [op |-> "resume", returned |-> SavedOrRaised]
            /\ UNCHANGED <<agents_needed, project_agents, phase_idx, mod_exec, proj_pc,
                           exec_result>>
            /\ UNCHANGED <<resolverVars, planVars, routerVars, opsVars, spawnerVars>>
            /\ UNCHANGED mcpVars
       ELSE /\ project_call' = [op |-> "resume", returned |-> "false"]
            /\ UNCHANGED paused_executions
            /\ UNCHANGED <<resolverVars, planVars, projVars, routerVars, opsVars,
                           spawnerVars>>
            /\ UNCHANGED mcpVars

\* ------------------------------------------------------------ SmartAgentRouter
\* scores are in hundredths, cost tiers are the values of CostTier
agent_names ==
    <<"deepseek-r1:14b", "llama3.2:latest", "qwen2.5-coder:7b", "claude-3-5-sonnet", "gpt-4o">>

agent_capabilities ==
    [n \in Range(agent_names) |->
       CASE n = "deepseek-r1:14b" ->
              [cost_tier |-> 0,
               specializations |->
                  {"backend_implementation", "api_design", "database_schema",
                   "code_optimization", "debugging", "algorithm_implementation",
                   "system_architecture", "performance_tuning"},
               quality_scores |->
                  ("backend_development" :> 90 @@ "algorithm_implementation" :> 95
                   @@ "code_optimization" :> 90 @@ "debugging" :> 85 @@ "api_design" :> 85
                   @@ "frontend_development" :> 60 @@ "ui_design" :> 40
                   @@ "content_creation" :> 50),
               reliability_score |-> 90]
         [] n = "llama3.2:latest" ->
              [cost_tier |-> 0,
               specializations |->
                  {"general_coding", "documentation", "testing", "code_review",
                   "simple_frontend", "scripting"},
               quality_scores |->
                  ("general_coding" :> 80 @@ "documentation" :> 85 @@ "testing" :> 80
                   @@ "code_review" :> 75 @@ "simple_frontend" :> 70
                   @@ "backend_development" :> 70 @@ "algorithm_implementation" :> 70
                   @@ "ui_design" :> 50),
               reliability_score |-> 80]
         [] n = "qwen2.5-coder:7b" ->
              [cost_tier |-> 0,
               specializations |->
                  {"devops", "infrastructure", "docker", "kubernetes", "ci_cd",
                   "automation", "configuration"},
               quality_scores |->
                  ("devops" :> 90 @@ "infrastructure" :> 85 @@ "automation" :> 85
                   @@ "configuration" :> 80 @@ "backend_development" :> 70
                   @@ "testing" :> 75 @@ "frontend_development" :> 50),
               reliability_score |-> 85]
         [] n = "claude-3-5-sonnet" ->
              [cost_tier |-> 2,
               specializations |->
                  {"frontend_development", "ui_design", "user_experience", "complex_logic",
                   "analysis", "planning", "architecture_review", "security_analysis",
                   "code_quality"},
               quality_scores |->
                  ("frontend_development" :> 95 @@ "ui_design" :> 90
                   @@ "user_experience" :> 90 @@ "analysis" :> 95 @@ "planning" :> 90
                   @@ "security_analysis" :> 90 @@ "code_quality" :> 95
                   @@ "backend_development" :> 85 @@ "algorithm_implementation" :> 85),
               reliability_score |-> 95]
         [] n = "gpt-4o" ->
              [cost_tier |-> 2,
               specializations |->
                  {"creative_solutions", "complex_problem_solving", "integration",
                   "full_stack", "mobile_development", "user_interaction",
                   "business_logic"},
               quality_scores |->
                  ("creative_solutions" :> 90 @@ "complex_problem_solving" :> 90
                   @@ "integration" :> 85 @@ "mobile_development" :> 85
                   @@ "full_stack" :> 80 @@ "frontend_development" :> 80
                   @@ "backend_development" :> 80 @@ "ui_design" :> 75),
               reliability_score |-> 90]]

\* the task types analyze_task_type can return
RouterTaskTypes ==
    {"backend_development", "frontend_development", "algorithm_implementation", "devops",
     "testing", "ui_design", "security_analysis", "documentation", "general_coding"}

TaskComplexity == {"SIMPLE", "MEDIUM", "COMPLEX", "CRITICAL"}

\* any other budget_preference is treated as balanced
BudgetPreferences == {"cost_optimized", "balanced", "quality_first"}

\* quality_scores.get(task_type, 0.5), adjusted by the complexity
quality_score(n, task_type, complexity) ==
    LET capability == agent_capabilities[n]
        base == IF task_type \in DOMAIN capability.quality_scores
                THEN capability.quality_scores[task_type] ELSE 50
    IN IF complexity = "SIMPLE" /\ capability.cost_tier = 0 THEN base + 10
       ELSE IF complexity = "CRITICAL" /\ capability.cost_tier \in {2, 3} THEN base + 5
       ELSE base

QualityWeightNone(budget_preference) == 0

\* weight of the quality score in tenths; the cost score has the rest
QualityWeight(budget_preference) ==
    IF budget_preference = "cost_optimized" THEN 2
    ELSE IF budget_preference = "quality_first" THEN 8
    ELSE 6

\* combined_score times 300000: the cost score is (3 - cost_tier) / 3
combined_score(n, task_type, complexity, budget_preference) ==
    LET capability == agent_capabilities[n]
        wq == QualityWeight(budget_preference)
        weighted == 3 * wq * quality_score(n, task_type, complexity)
                    + 100 * (10 - wq) * (3 - capability.cost_tier)
        bonus == IF task_type \in capability.specializations THEN 300 ELSE 0
    IN (weighted + bonus) * capability.reliability_score

\* max(agent_scores, key=...): the first agent of the table with the highest score
BestAgent(task_type, complexity, budget_preference) ==
    LET score(i) == combined_score(agent_names[i], task_type, complexity, budget_preference)
    IN agent_names[CHOOSE i \in DOMAIN agent_names :
                      /\ \A j \in DOMAIN agent_names : score(j) <= score(i)
                      /\ \A j \in 1..(i - 1) : score(j) < score(i)]

\* what analyze_task_type makes of a task description, with the budget preference
RouterTasks ==
    [task_type : RouterTaskTypes, complexity : TaskComplexity,
     budget_preference : BudgetPreferences]

\* two calls are followed
select_optimal_agent ==
    /\ prev_selection = <<>>
    /\ \E task \in RouterTasks :
          LET model_name == BestAgent(task.task_type, task.complexity,
                                      task.budget_preference)
          IN selection' = [task |-> task,
                           model_name |-> model_name,
                           quality_score |-> quality_score(model_name, task.task_type,
                                                           task.complexity)]
    /\ prev_selection' = selection
    /\ UNCHANGED <<last_estimate, prev_estimate>>
    /\ UNCHANGED resolverVars
    /\ UNCHANGED planVars
    /\ UNCHANGED projVars
    /\ UNCHANGED opsVars
    /\ UNCHANGED spawnerVars
    /\ UNCHANGED extVars

RateOfTierFlat(cost_tier) == 1

\* cost_per_1k_tokens in thousandths of a dollar
RateOfTier(cost_tier) ==
    CASE cost_tier = 0 -> 0
      [] cost_tier = 1 -> 1
      [] cost_tier = 2 -> 3
      [] cost_tier = 3 -> 10

\* the estimate in millionths of a dollar; <<>> is the error value
CostEstimate(model_name, estimated_tokens) ==
    IF model_name \notin DOMAIN agent_capabilities THEN <<>>
    ELSE <<estimated_tokens * RateOfTier(agent_capabilities[model_name].cost_tier)>>

get_cost_estimate ==
    /\ \E model_name \in Range(agent_names) \cup {"unknown"} :
       \E estimated_tokens \in 0..MaxTokens :
          /\ last_estimate' = [model |-> model_name, tokens |-> estimated_tokens,
                               result |-> CostEstimate(model_name, estimated_tokens)]
          /\ prev_estimate' = last_estimate
    /\ UNCHANGED <<selection, prev_selection>>
    /\ UNCHANGED resolverVars
    /\ UNCHANGED planVars
    /\ UNCHANGED projVars
    /\ UNCHANGED opsVars
    /\ UNCHANGED spawnerVars
    /\ UNCHANGED extVars

\* ------------------------------------------------------------ module state machine
\* the progress values handed to update_module_progress
ProgressInputs == {-10, 50, 120}

\* the names handed to the methods: 0 is the name of no registered module
CallNames == DOMAIN modules \cup {0}

\* the record of a call: the status the module had before it, the value returned
Call(op, module_name, returned) ==
    [op |-> op, module |-> module_name, returned |-> returned,
     was |-> IF module_name \in DOMAIN modules THEN modules[module_name].status ELSE "unknown"]

StartUnchecked(mods, module_name) ==
    IF module_name \notin DOMAIN mods \/ mods[module_name].status # "ready"
    THEN [modules |-> mods, returned |-> FALSE]
    ELSE [modules |-> [mods EXCEPT ![module_name].status = "in_progress",
                                   ![module_name].progress = 0],
          returned |-> TRUE]

\* start_module_execution: the modules after the call and the value returned
StartModule(mods, module_name) ==
    IF module_name \notin DOMAIN mods \/ mods[module_name].status # "ready"
    THEN [modules |-> mods, returned |-> FALSE]
    ELSE IF ~check_dependencies_met(mods, module_name)
    THEN [modules |-> [mods EXCEPT ![module_name].status = "waiting_dependency"],
          returned |-> FALSE]
    ELSE [modules |-> [mods EXCEPT ![module_name].status = "in_progress",
                                   ![module_name].progress = 0],
          returned |-> TRUE]

\* names of the modules that list module_name as a dependency, in dict order
get_dependent_modules(mods, module_name) ==
    SelectSeq(DictKeys(mods), LAMBDA name : module_name \in Range(mods[name].dependencies))

check_and_unlock_dependent_modules(mods, completed_module) ==
    UpdateStatusOfAll(mods, get_dependent_modules(mods, completed_module))

complete_module(mods, module_name) ==
    check_and_unlock_dependent_modules(
        [mods EXCEPT ![module_name].status = "completed", ![module_name].progress = 100],
        module_name)

Clamp(progress) == IF progress < 0 THEN 0 ELSE IF progress > 100 THEN 100 ELSE progress

UpdateProgress(mods, module_name, progress) ==
    IF module_name \notin DOMAIN mods THEN mods
    ELSE LET updated == [mods EXCEPT ![module_name].progress = Clamp(progress)]
         IN IF progress >= 100 /\ updated[module_name].status = "in_progress"
            THEN complete_module(updated, module_name)
            ELSE updated

MarkedStatusesAll == {"planned", "ready", "in_progress", "waiting_dependency", "completed",
                      "failed"}

\* the statuses of the dependents that fail_module marks
MarkedStatuses == {"planned", "ready"}

FailModule(mods, module_name) ==
    IF module_name \notin DOMAIN mods THEN mods
    ELSE LET failed == [mods EXCEPT ![module_name].status = "failed"]
         IN [name \in DOMAIN failed |->
               IF /\ module_name \in Range(failed[name].dependencies)
                  /\ failed[name].status \in MarkedStatuses
               THEN [failed[name] EXCEPT !.blockers = Append(@, 0 - module_name)]
               ELSE failed[name]]

PauseModule(mods, module_name) ==
    IF module_name \in DOMAIN mods /\ mods[module_name].status = "in_progress"
    THEN [mods EXCEPT ![module_name].paused_progress = <<mods[module_name].progress>>]
    ELSE mods

RestoredProgressKept(state) == state.progress

\* the progress of a module after resume_module
RestoredProgress(state) ==
    IF state.paused_progress # <<>> THEN state.paused_progress[1] ELSE state.progress

ResumeModule(mods, module_name) ==
    IF module_name \notin DOMAIN mods THEN mods
    ELSE [mods EXCEPT ![module_name].progress = RestoredProgress(mods[module_name]),
                      ![module_name].paused_progress = <<>>,
                      ![module_name].status = "in_progress"]

\* reset_module: the initial state of the module, then the check for ready
ResetModule(mods, module_name) ==
    IF module_name \notin DOMAIN mods THEN mods
    ELSE check_and_update_status(
             [mods EXCEPT ![module_name] = NewModuleState(mods[module_name].dependencies)],
             module_name)

start_module_execution ==
    /\ ops < MaxOps
    /\ \E module_name \in CallNames :
          LET r == StartModule(modules, module_name)
          IN /\ modules' = r.modules
             /\ last_op' = Call("start", module_name, r.returned)
    /\ ops' = ops + 1
    /\ UNCHANGED pause_log
    /\ UNCHANGED <<modules_specs, hashOrder, execution_order, critical_path, forced_phases,
                   iteration, calls, prev_execution_order, prev_critical_path, returned_plan,
                   orch_called, orch_phases, orch_critical_path>>
    /\ UNCHANGED <<planVars, projVars, routerVars>>
    /\ UNCHANGED spawnerVars
    /\ UNCHANGED extVars

update_module_progress ==
    /\ ops < MaxOps
    /\ \E module_name \in CallNames : \E progress \in ProgressInputs :
          /\ modules' = UpdateProgress(modules, module_name, progress)
          /\ last_op' = Call("update", module_name, FALSE)
    /\ ops' = ops + 1
    /\ UNCHANGED pause_log
    /\ UNCHANGED <<modules_specs, hashOrder, execution_order, critical_path, forced_phases,
                   iteration, calls, prev_execution_order, prev_critical_path, returned_plan,
                   orch_called, orch_phases, orch_critical_path>>
    /\ UNCHANGED <<planVars, projVars, routerVars>>
    /\ UNCHANGED spawnerVars
    /\ UNCHANGED extVars

fail_module ==
    /\ ops < MaxOps
    /\ \E module_name \in CallNames :
          /\ modules' = FailModule(modules, module_name)
          /\ last_op' = Call("fail", module_name, FALSE)
    /\ ops' = ops + 1
    /\ UNCHANGED pause_log
    /\ UNCHANGED <<modules_specs, hashOrder, execution_order, critical_path, forced_phases,
                   iteration, calls, prev_execution_order, prev_critical_path, returned_plan,
                   orch_called, orch_phases, orch_critical_path>>
    /\ UNCHANGED <<planVars, projVars, routerVars>>
    /\ UNCHANGED spawnerVars
    /\ UNCHANGED extVars

pause_module ==
    /\ ops < MaxOps
    /\ \E module_name \in CallNames :
          /\ modules' = PauseModule(modules, module_name)
          /\ last_op' = Call("pause", module_name, FALSE)
          /\ pause_log' = IF module_name \in DOMAIN modules
                             /\ modules[module_name].status = "in_progress"
                          THEN [pause_log EXCEPT
                                   ![module_name] = <<modules[module_name].progress, FALSE>>]
                          ELSE pause_log
    /\ ops' = ops + 1
    /\ UNCHANGED <<modules_specs, hashOrder, execution_order, critical_path, forced_phases,
                   iteration, calls, prev_execution_order, prev_critical_path, returned_plan,
                   orch_called, orch_phases, orch_critical_path>>
    /\ UNCHANGED <<planVars, projVars, routerVars>>
    /\ UNCHANGED spawnerVars
    /\ UNCHANGED extVars

resume_module ==
    /\ ops < MaxOps
    /\ \E module_name \in CallNames :
          /\ modules' = ResumeModule(modules, module_name)
          /\ last_op' = Call("resume", module_name, FALSE)
          /\ pause_log' = IF module_name \in DOMAIN modules
                          THEN [pause_log EXCEPT ![module_name] = <<>>]
                          ELSE pause_log
    /\ ops' = ops + 1
    /\ UNCHANGED <<modules_specs, hashOrder, execution_order, critical_path, forced_phases,
                   iteration, calls, prev_execution_order, prev_critical_path, returned_plan,
                   orch_called, orch_phases, orch_critical_path>>
    /\ UNCHANGED <<planVars, projVars, routerVars>>
    /\ UNCHANGED spawnerVars
    /\ UNCHANGED extVars

reset_module ==
    /\ ops < MaxOps
    /\ \E module_name \in CallNames :
          /\ modules' = ResetModule(modules, module_name)
          /\ last_op' = Call("reset", module_name, FALSE)
          /\ pause_log' = IF module_name \in DOMAIN modules /\ pause_log[module_name] # <<>>
                          THEN [pause_log EXCEPT ![module_name][2] = TRUE]
                          ELSE pause_log
    /\ ops' = ops + 1
    /\ UNCHANGED <<modules_specs, hashOrder, execution_order, critical_path, forced_phases,
                   iteration, calls, prev_execution_order, prev_critical_path, returned_plan,
                   orch_called, orch_phases, orch_critical_path>>
    /\ UNCHANGED <<planVars, projVars, routerVars>>
    /\ UNCHANGED spawnerVars
    /\ UNCHANGED extVars

\* ------------------------------------------------------------ ResourceManager
\* ids of agents; 0 is no agent
AgentIds == {1, 2, 3}

Resources == {1, 2}

\* a resource without a key in resource_locks has owner 0; a resource without a
\* key in resource_queues has the empty queue (release_resource treats both alike)
ResourcesIdle ==
    /\ routes = {}
    /\ resource_locks = [r \in Resources |-> 0]
    /\ resource_queues = [r \in Resources |-> <<>>]
    /\ held = [a \in AgentIds |-> <<>>]
    /\ resource_call = [op |-> "none", agent |-> 0, resource |-> 0, returned |-> FALSE]

\* the state the ResourceManager works on: its locks and queues and, through the
\* resource_response messages it routes, the resource_locks lists of the agents
ResourceState == [locks |-> resource_locks, queues |-> resource_queues, held |-> held]

\* route_message of the granted resource_response: _handle_resource_response of
\* the agent when it is registered, dropped otherwise
handle_resource_response(rm, agent_id, resource_id) ==
    IF agent_id \in routes
    THEN [rm EXCEPT !.held[agent_id] = Append(@, resource_id)]
    ELSE rm

request_resource(rm, agent_id, resource_id) ==
    IF rm.locks[resource_id] = 0
    THEN [state    |-> handle_resource_response(
                          [rm EXCEPT !.locks[resource_id] = agent_id],
                          agent_id, resource_id),
          returned |-> TRUE]
    ELSE [state    |-> [rm EXCEPT !.queues[resource_id] = Append(@, agent_id)],
          returned |-> FALSE]

\* the waiting agent a release hands the resource to: the tail of the queue
NextAgentLast(queue) == queue[Len(queue)]

NextAgent(queue) == Head(queue)

\* pop(0)
RestOfQueue(queue) == Tail(queue)

\* a release that does not look at who owns the resource
ReleaseByAnyone(rm, agent_id, resource_id) ==
    IF rm.locks[resource_id] = 0 THEN [state |-> rm, returned |-> FALSE]
    ELSE LET freed == [rm EXCEPT !.locks[resource_id] = 0]
         IN IF freed.queues[resource_id] # <<>>
            THEN [state    |-> request_resource(
                                  [freed EXCEPT !.queues[resource_id] = RestOfQueue(@)],
                                  NextAgent(freed.queues[resource_id]),
                                  resource_id).state,
                  returned |-> TRUE]
            ELSE [state |-> freed, returned |-> TRUE]

release_resource(rm, agent_id, resource_id) ==
    IF rm.locks[resource_id] = 0 THEN [state |-> rm, returned |-> FALSE]
    ELSE IF rm.locks[resource_id] # agent_id THEN [state |-> rm, returned |-> FALSE]
    ELSE LET freed == [rm EXCEPT !.locks[resource_id] = 0]
         IN IF freed.queues[resource_id] # <<>>
            THEN [state    |-> request_resource(
                                  [freed EXCEPT !.queues[resource_id] = RestOfQueue(@)],
                                  NextAgent(freed.queues[resource_id]),
                                  resource_id).state,
                  returned |-> TRUE]
            ELSE [state |-> freed, returned |-> TRUE]

\* the lists of the model stay within the bounds
WithinResourceBounds(rm) ==
    /\ \A r \in Resources : Len(rm.queues[r]) <= MaxQueue
    /\ \A a \in AgentIds : Len(rm.held[a]) <= MaxHeld

StoreResourceState(rm) ==
    /\ resource_locks' = rm.locks
    /\ resource_queues' = rm.queues
    /\ held' = rm.held

\* a call of ResourceManager.request_resource by any agent for any resource
call_request_resource ==
    \E agent_id \in AgentIds, resource_id \in Resources :
       LET r == request_resource(ResourceState, agent_id, resource_id)
       IN /\ WithinResourceBounds(r.state)
          /\ StoreResourceState(r.state)
          /\ UNCHANGED <<routes, agentVars, collabVars>>
          /\ resource_call' = [op |-> "request", agent |-> agent_id,
                               resource |-> resource_id, returned |-> r.returned]
          /\ UNCHANGED coreVars

\* a call of ResourceManager.release_resource by any agent for any resource
call_release_resource ==
    \E agent_id \in AgentIds, resource_id \in Resources :
       LET r == release_resource(ResourceState, agent_id, resource_id)
       IN /\ WithinResourceBounds(r.state)
          /\ StoreResourceState(r.state)
          /\ UNCHANGED <<routes, agentVars, collabVars>>
          /\ resource_call' = [op |-> "release", agent |-> agent_id,
                               resource |-> resource_id, returned |-> r.returned]
          /\ UNCHANGED coreVars

\* ------------------------------------------------------------ EnhancedAgent
TaskNumbers == 1..MaxAssignments

CollabIds == 1..MaxCollabs

agent_max_concurrent_tasks == 3

\* no EnhancedAgent was constructed
AgentsIdle ==
    /\ agent_status = [a \in AgentIds |-> "none"]
    /\ active_tasks = [a \in AgentIds |-> [t \in TaskNumbers |-> "none"]]
    /\ task_pc = [a \in AgentIds |-> [t \in TaskNumbers |-> "none"]]
    /\ next_task = 1
    /\ active_collaborations = [a \in AgentIds |-> [c \in CollabIds |-> "none"]]
    /\ collaborations_successful = [a \in AgentIds |-> 0]
    /\ protocol_collaborations = <<>>

\* role of each agent
AgentRole == <<"frontend", "backend", "security">>

\* required_roles of the three collaboration_patterns
CollaborationPatterns == {{"backend", "frontend"}, {"backend", "data"}, {"security"}}

\* what _assess_collaboration_needs can return to an agent: the roles of a
\* pattern that does not name the agent's role, as a list made from a set
CollaborationNeeds(a) ==
    UNION {Perms(roles) : roles \in {p \in CollaborationPatterns : AgentRole[a] \notin p}}

TaskKeys(tasks_of_agent) == {t \in TaskNumbers : tasks_of_agent[t] # "none"}

\* the state the collaboration messages work on
CollabState ==
    [status     |-> agent_status,
     collabs    |-> active_collaborations,
     successful |-> collaborations_successful,
     protocol   |-> protocol_collaborations]

\* _handle_collaboration_response of the requester
handle_collaboration_response(cs, requester, c, accepted) ==
    IF cs.collabs[requester][c] # "none"
    THEN IF accepted
         THEN [cs EXCEPT !.collabs[requester][c] = "active",
                         !.successful[requester] = @ + 1]
         ELSE [cs EXCEPT !.collabs[requester][c] = "none"]
    ELSE cs

\* respond_to_collaboration: the record of the protocol is updated and the
\* response is routed to the requester
respond_to_collaboration(cs, c, accepted) ==
    IF c \notin DOMAIN cs.protocol THEN cs
    ELSE LET answered == [cs EXCEPT !.protocol[c].status =
                                       IF accepted THEN "accepted" ELSE "rejected"]
             requester == cs.protocol[c].requester_id
         IN IF requester \in routes
            THEN handle_collaboration_response(answered, requester, c, accepted)
            ELSE answered

\* _handle_collaboration_request of the target
handle_collaboration_request(cs, target, c) ==
    LET can_collaborate == cs.status[target] = "idle"
        responded == respond_to_collaboration(cs, c, can_collaborate)
    IN IF can_collaborate
       THEN [responded EXCEPT !.status[target] = "collaborating",
                              !.collabs[target][c] = "active"]
       ELSE responded

\* request_collaboration: the record of the protocol is made, the request is
\* routed to the target and answered by it before the call returns
request_collaboration(cs, requester, target) ==
    LET c == Len(cs.protocol) + 1
        pending == [cs EXCEPT !.protocol =
                       Append(@, [requester_id |-> requester, target_id |-> target,
                                  status |-> "pending"])]
    IN handle_collaboration_request(pending, target, c)

\* the registered agents of a role, in the order of routes
AvailableAgents(role) == {b \in routes : AgentRole[b] = role}

FirstAvailable(role) == CHOOSE b \in AvailableAgents(role) : \A o \in AvailableAgents(role) : b <= o

\* the record the requester writes when the request call has returned
RecordRequested(cs, requester, c) == [cs EXCEPT !.collabs[requester][c] = "requested"]

\* _initiate_collaboration over the required roles; returned tells its result
RECURSIVE initiate_collaboration(_, _, _)
initiate_collaboration(cs, requester, required_roles) ==
    IF required_roles = <<>> THEN [state |-> cs, returned |-> FALSE]
    ELSE IF AvailableAgents(Head(required_roles)) # {}
    THEN LET requested == request_collaboration(cs, requester,
                                                FirstAvailable(Head(required_roles)))
         IN [state    |-> RecordRequested(requested, requester, Len(requested.protocol)),
             returned |-> TRUE]
    ELSE initiate_collaboration(cs, requester, Tail(required_roles))

StoreCollabState(cs) ==
    /\ active_collaborations' = cs.collabs
    /\ collaborations_successful' = cs.successful
    /\ protocol_collaborations' = cs.protocol

\* the finally clause of _execute_task
TaskCleanup(status_of_agent, tasks_of_agent, t) ==
    IF TaskKeys(tasks_of_agent) \ {t} = {} THEN "idle" ELSE status_of_agent

\* a task_assignment message is routed to a registered agent
handle_task_assignment ==
    \E a \in routes :
       /\ next_task <= MaxAssignments
       /\ IF Cardinality(TaskKeys(active_tasks[a])) >= agent_max_concurrent_tasks
          THEN UNCHANGED agentVars
          ELSE /\ active_tasks' = [active_tasks EXCEPT ![a][next_task] = "pending"]
               /\ task_pc' = [task_pc EXCEPT ![a][next_task] = "scheduled"]
               /\ agent_status' = [agent_status EXCEPT ![a] = "working"]
               /\ next_task' = next_task + 1
       /\ UNCHANGED <<resourceVars, collabVars>>
       /\ UNCHANGED coreVars

\* the background _execute_task of a task runs up to the call of the AI: with a
\* collaboration need it asks for the collaboration, and fails when none is found
execute_task_begins ==
    \E a \in AgentIds, t \in TaskNumbers :
       /\ task_pc[a][t] = "scheduled"
       /\ \E need \in CollaborationNeeds(a) \cup {<<>>} :
             /\ need # <<>> => Len(protocol_collaborations) < MaxCollabs
             /\ LET started == [active_tasks EXCEPT ![a][t] = "in_progress"]
                    r == IF need = <<>> THEN [state |-> CollabState, returned |-> TRUE]
                         ELSE initiate_collaboration(CollabState, a, need)
                IN /\ StoreCollabState(r.state)
                   /\ IF r.returned
                      THEN /\ active_tasks' = started
                           /\ task_pc' = [task_pc EXCEPT ![a][t] = "ai"]
                           /\ agent_status' = r.state.status
                      ELSE /\ active_tasks' = [active_tasks EXCEPT ![a][t] = "none"]
                           /\ task_pc' = [task_pc EXCEPT ![a][t] = "none"]
                           /\ agent_status' =
                                 [r.state.status EXCEPT
                                    ![a] = TaskCleanup(@, active_tasks[a], t)]
       /\ UNCHANGED next_task
       /\ UNCHANGED resourceVars
       /\ UNCHANGED coreVars

\* the AI call of a task returns or raises: the result is notified and the
\* finally clause of _execute_task runs
execute_task_ends ==
    \E a \in AgentIds, t \in TaskNumbers :
       /\ task_pc[a][t] = "ai"
       /\ active_tasks' = [active_tasks EXCEPT ![a][t] = "none"]
       /\ task_pc' = [task_pc EXCEPT ![a][t] = "none"]
       /\ agent_status' = [agent_status EXCEPT ![a] = TaskCleanup(@, active_tasks[a], t)]
       /\ UNCHANGED next_task
       /\ UNCHANGED <<resourceVars, collabVars>>
       /\ UNCHANGED coreVars

CancelTasks(tasks_of_agent) ==
    [t \in TaskNumbers |-> IF tasks_of_agent[t] # "none" THEN "cancelled" ELSE "none"]

\* the loop of _handle_shutdown over self.resource_locks, from place i on; a
\* release that hands the resource back to the agent lengthens the list
RECURSIVE ReleaseHeld(_, _, _)
ReleaseHeld(rm, a, i) ==
    IF i > Len(rm.held[a]) THEN rm
    ELSE ReleaseHeld(release_resource(rm, a, rm.held[a][i]).state, a, i + 1)

\* a shutdown message is routed to a registered agent
handle_shutdown ==
    \E a \in routes :
       LET released == ReleaseHeld(ResourceState, a, 1)
       IN /\ WithinResourceBounds(released)
          /\ StoreResourceState(released)
          /\ active_tasks' = [active_tasks EXCEPT ![a] = CancelTasks(@)]
          /\ agent_status' = [agent_status EXCEPT ![a] = "offline"]
          /\ UNCHANGED <<routes, resource_call, task_pc, next_task>>
          /\ UNCHANGED collabVars
          /\ UNCHANGED coreVars

\* EnhancedAgent.shutdown
shutdown ==
    \E a \in routes :
       /\ active_tasks' = [active_tasks EXCEPT ![a] = CancelTasks(@)]
       /\ active_collaborations' = [active_collaborations EXCEPT
                                       ![a] = [c \in CollabIds |-> "none"]]
       /\ held' = [held EXCEPT ![a] = <<>>]
       /\ agent_status' = [agent_status EXCEPT ![a] = "offline"]
       /\ UNCHANGED <<routes, resource_locks, resource_queues, resource_call>>
       /\ UNCHANGED <<task_pc, next_task, collaborations_successful,
                      protocol_collaborations>>
       /\ UNCHANGED coreVars

\* ------------------------------------------------------------ specification
PlanIdle ==
    /\ agents = <<>>
    /\ registered = FALSE
    /\ tasks = <<>>
    /\ completed_tasks = {}
    /\ results = <<>>
    /\ batch_tasks = <<>>
    /\ co = <<>>
    /\ exec_pc = "idle"
    /\ execution_state = [status |-> "none", progress |-> 0]
    /\ final_result = "none"
    /\ gen_failed = {}
    /\ max_concurrent = max_concurrent_tasks
    /\ deferred = {}

ProjectIdle ==
    /\ agents_needed = <<>>
    /\ project_agents = <<>>
    /\ project_status = "planning"
    /\ phase_idx = 0
    /\ mod_exec = <<>>
    /\ proj_pc = "idle"
    /\ exec_result = "none"

RouterIdle ==
    /\ selection = <<>>
    /\ prev_selection = <<>>
    /\ last_estimate = <<>>
    /\ prev_estimate = <<>>

\* no pause_project or resume_project call was made
PauseIdle ==
    /\ paused_executions = {}
    /\ project_call = [op |-> "none", returned |-> "none"]

McpIdle == ResourcesIdle /\ AgentsIdle

ExtIdle == PauseIdle /\ McpIdle

OpsIdle ==
    /\ ExtIdle
    /\ ops = 0
    /\ last_op = <<>>
    /\ pause_log = <<>>
    /\ terminated = {}
    /\ launches = <<>>

InitResolver ==
    /\ modules_specs \in SpecSets
    /\ hashOrder \in Perms(DOMAIN modules_specs)
    /\ modules = <<>>
    /\ execution_order = <<>>
    /\ critical_path = <<>>
    /\ forced_phases = {}
    /\ iteration = 0
    /\ calls = 0
    /\ prev_execution_order = <<>>
    /\ prev_critical_path = <<>>
    /\ returned_plan = <<>>
    /\ orch_called = FALSE
    /\ orch_phases = <<>>
    /\ orch_critical_path = <<>>

Init == InitResolver /\ PlanIdle /\ ProjectIdle /\ RouterIdle /\ OpsIdle

Next ==
    \/ create_execution_plan
    \/ orch_create_execution_plan

Spec == Init /\ [][Next]_vars

ResolverIdle ==
    /\ modules_specs = <<>>
    /\ hashOrder = <<>>
    /\ modules = <<>>
    /\ execution_order = <<>>
    /\ critical_path = <<>>
    /\ forced_phases = {}
    /\ iteration = 0
    /\ calls = MaxCalls
    /\ prev_execution_order = <<>>
    /\ prev_critical_path = <<>>
    /\ returned_plan = <<>>
    /\ orch_called = TRUE
    /\ orch_phases = <<>>
    /\ orch_critical_path = <<>>

InitPlan ==
    /\ OpsIdle
    /\ ResolverIdle
    /\ ProjectIdle
    /\ RouterIdle
    /\ agents \in AgentLists
    /\ registered \in BOOLEAN
    /\ tasks = <<>>
    /\ completed_tasks = {}
    /\ results = <<>>
    /\ batch_tasks = <<>>
    /\ co = <<>>
    /\ exec_pc = "start"
    /\ execution_state = [status |-> "none", progress |-> 0]
    /\ final_result = "none"
    /\ gen_failed = {}
    /\ max_concurrent \in ConcurrencyLimits
    /\ deferred = {}

\* the task lists _execute_task_plan can be handed: ids in plan order, one agent
\* id per task, dependencies on ids of the list or on an id outside of it
TaskIds == <<"design", "implement", "test", "review">>

PlanDeps == {<<>>} \cup {<<id>> : id \in Range(TaskIds) \cup {"external"}}

GivenTask(i, agent_id, dependencies) ==
    [id |-> TaskIds[i], task_type |-> TaskIds[i], agent_id |-> <<agent_id>>,
     priority |-> 10 - (i - 1), dependencies |-> dependencies, status |-> "pending"]

TaskPlans ==
    UNION {{[i \in 1..n |-> GivenTask(i, a[i], d[i])] :
               a \in [1..n -> 1..MaxAgents], d \in [1..n -> PlanDeps]} : n \in 0..MaxTasks}

\* _execute_task_plan is entered with a task list and idle agents
InitTasks ==
    /\ OpsIdle
    /\ ResolverIdle
    /\ ProjectIdle
    /\ RouterIdle
    /\ agents = [a \in 1..MaxAgents |-> [role |-> "backend", status |-> "idle"]]
    /\ registered \in BOOLEAN
    /\ tasks \in TaskPlans
    /\ completed_tasks = {}
    /\ results = <<>>
    /\ batch_tasks = <<>>
    /\ co = <<>>
    /\ exec_pc = "loop"
    /\ execution_state = [status |-> "running", progress |-> 0]
    /\ final_result = "none"
    /\ gen_failed = {}
    /\ max_concurrent = max_concurrent_tasks
    /\ deferred = {}

NextTasks ==
    \/ begin_round
    \/ start_task
    \/ generation_returns
    \/ generation_fails
    \/ collect_round
    \/ finish_module

SpecTasks == InitTasks /\ [][NextTasks]_vars

\* every coroutine that can run is run, and generate_response returns or raises
FairSpecTasks == SpecTasks /\ WF_vars(NextTasks)

NextCancel ==
    \/ begin_round
    \/ start_task
    \/ generation_returns
    \/ generation_fails
    \/ collect_round
    \/ finish_module
    \/ terminate_agent

\* the execution of a task list during which agents are terminated
SpecCancel == InitTasks /\ [][NextCancel]_vars

NextPlan ==
    \/ execute_module
    \/ begin_round
    \/ start_task
    \/ generation_returns
    \/ generation_fails
    \/ collect_round
    \/ finish_module

SpecPlan == InitPlan /\ [][NextPlan]_vars

\* a module asks for one agent role or for none
RoleCounts == {0, 1}

\* a project made by create_project, before execute_project
InitProject ==
    /\ OpsIdle
    /\ InitResolver
    /\ PlanIdle
    /\ RouterIdle
    /\ agents_needed \in [DOMAIN modules_specs -> RoleCounts]
    /\ project_agents = <<>>
    /\ project_status = "planning"
    /\ phase_idx = 0
    /\ mod_exec = [m \in DOMAIN modules_specs |-> "not_started"]
    /\ proj_pc = "start"
    /\ exec_result = "none"

NextProject ==
    \/ begin_execute_project
    \/ start_phase
    \/ module_returns
    \/ module_raises
    \/ phase_results

SpecProject == InitProject /\ [][NextProject]_vars

InitRouter ==
    /\ OpsIdle
    /\ ResolverIdle
    /\ PlanIdle
    /\ ProjectIdle
    /\ RouterIdle

NextRouter == select_optimal_agent

SpecRouter == InitRouter /\ [][NextRouter]_vars

NextCost == get_cost_estimate

SpecCost == InitRouter /\ [][NextCost]_vars

\* the projects whose modules are run: a chain with a fan-in, a cycle whose
\* modules also name a module outside the project, and a chain of two modules
\* that both name a module outside the project
ModuleGraphs == {<<<<>>, <<1>>, <<1, 2>>>>, <<<<2, 0>>, <<1>>>>, <<<<0>>, <<1, 0>>>>}

\* the ModuleManager after register_modules(specs) on a new instance
RegisteredModules(specs) == calculate_execution_plan(RegisterSpecs(<<>>, specs))

InitModules ==
    /\ ExtIdle
    /\ PlanIdle
    /\ ProjectIdle
    /\ RouterIdle
    /\ modules_specs \in ModuleGraphs
    /\ hashOrder = DictKeys(modules_specs)
    /\ modules = RegisteredModules(modules_specs).modules
    /\ execution_order = RegisteredModules(modules_specs).phases
    /\ critical_path = RegisteredModules(modules_specs).critical_path
    /\ forced_phases = RegisteredModules(modules_specs).forced
    /\ iteration = RegisteredModules(modules_specs).iteration
    /\ calls = MaxCalls
    /\ prev_execution_order = <<>>
    /\ prev_critical_path = <<>>
    /\ returned_plan = <<>>
    /\ orch_called = TRUE
    /\ orch_phases = <<>>
    /\ orch_critical_path = <<>>
    /\ ops = 0
    /\ last_op = <<>>
    /\ pause_log = [name \in DOMAIN modules_specs |-> <<>>]
    /\ terminated = {}
    /\ launches = <<>>

NextModules ==
    \/ start_module_execution
    \/ update_module_progress
    \/ fail_module
    \/ pause_module
    \/ resume_module
    \/ reset_module

SpecModules == InitModules /\ [][NextModules]_vars

\* a project of one of the module graphs, with calls of pause_project and
\* resume_project at any point of its execution
InitPause ==
    /\ InitProject
    /\ modules_specs \in ModuleGraphs
    /\ hashOrder = DictKeys(modules_specs)

NextPause ==
    \/ NextProject
    \/ pause_project
    \/ resume_project

SpecPause == InitPause /\ [][NextPause]_vars

\* the ResourceManager of a new MCPCommunicationManager, called with agent ids
InitResources ==
    /\ OpsIdle
    /\ ResolverIdle
    /\ PlanIdle
    /\ ProjectIdle
    /\ RouterIdle

NextResources ==
    \/ call_request_resource
    \/ call_release_resource

SpecResources == InitResources /\ [][NextResources]_vars

\* release_resource called by the agent that owns the resource
OwnerReleases(resource_id) ==
    /\ resource_locks[resource_id] # 0
    /\ LET r == release_resource(ResourceState, resource_locks[resource_id], resource_id)
       IN /\ StoreResourceState(r.state)
          /\ resource_call' = [op |-> "release", agent |-> resource_locks[resource_id],
                               resource |-> resource_id, returned |-> r.returned]
    /\ UNCHANGED <<routes, agentVars, collabVars>>
    /\ UNCHANGED coreVars

\* calls for one resource, whose owner does not keep it forever
OnOneResource == resource_call'.resource = 1

NextOneResource ==
    \/ call_request_resource /\ OnOneResource
    \/ call_release_resource /\ OnOneResource

FairSpecResources ==
    InitResources /\ [][NextOneResource]_vars /\ WF_vars(OwnerReleases(1))

\* two agents after initialize, idle and registered in the router; the third id
\* is not the id of an agent
RegisteredAgents == {1, 2}

\* the registered agents share one resource
ByRegisteredAgent ==
    /\ resource_call'.agent \in RegisteredAgents
    /\ resource_call'.resource = 1

InitAgents ==
    /\ PauseIdle
    /\ ResolverIdle
    /\ PlanIdle
    /\ ProjectIdle
    /\ RouterIdle
    /\ ops = 0
    /\ last_op = <<>>
    /\ pause_log = <<>>
    /\ terminated = {}
    /\ launches = <<>>
    /\ routes = RegisteredAgents
    /\ resource_locks = [r \in Resources |-> 0]
    /\ resource_queues = [r \in Resources |-> <<>>]
    /\ held = [a \in AgentIds |-> <<>>]
    /\ resource_call = [op |-> "none", agent |-> 0, resource |-> 0, returned |-> FALSE]
    /\ agent_status = [a \in AgentIds |-> IF a \in RegisteredAgents THEN "idle" ELSE "none"]
    /\ active_tasks = [a \in AgentIds |-> [t \in TaskNumbers |-> "none"]]
    /\ task_pc = [a \in AgentIds |-> [t \in TaskNumbers |-> "none"]]
    /\ next_task = 1
    /\ active_collaborations = [a \in AgentIds |-> [c \in CollabIds |-> "none"]]
    /\ collaborations_successful = [a \in AgentIds |-> 0]
    /\ protocol_collaborations = <<>>

NextAgents ==
    \/ handle_task_assignment
    \/ execute_task_begins
    \/ execute_task_ends
    \/ handle_shutdown
    \/ shutdown
    \/ call_request_resource /\ ByRegisteredAgent
    \/ call_release_resource /\ ByRegisteredAgent

SpecAgents == InitAgents /\ [][NextAgents]_vars

\* the module specs of an earlier registration, kept in data/modules_state.json,
\* and those of the project planned now: at most one dependency in all
EarlierSpecs == UNION {DepMaps(n, 1) : n \in ModuleNames}

\* a new ModuleManager whose __init__ loaded the modules an earlier run saved
InitSaved ==
    /\ PlanIdle
    /\ ProjectIdle
    /\ RouterIdle
    /\ OpsIdle
    /\ modules_specs \in EarlierSpecs
    /\ \E earlier \in EarlierSpecs \cup {<<>>} :
          /\ hashOrder \in Perms(DOMAIN modules_specs \cup DOMAIN earlier)
          /\ modules = RegisteredModules(earlier).modules
    /\ execution_order = <<>>
    /\ critical_path = <<>>
    /\ forced_phases = {}
    /\ iteration = 0
    /\ calls = 0
    /\ prev_execution_order = <<>>
    /\ prev_critical_path = <<>>
    /\ returned_plan = <<>>
    /\ orch_called = TRUE
    /\ orch_phases = <<>>
    /\ orch_critical_path = <<>>

NextSaved == create_execution_plan

SpecSaved == InitSaved /\ [][NextSaved]_vars

\* ------------------------------------------------------------ resolver claims
InSetDeps(D, m) == {d \in Range(D[m]) : d \in DOMAIN D}

RECURSIVE DependsOnFrom(_, _)
DependsOnFrom(D, S) ==
    LET T == S \cup UNION {InSetDeps(D, m) : m \in S}
    IN IF T = S THEN S ELSE DependsOnFrom(D, T)

\* the modules m depends on, directly or through other modules of the set
DependsOn(D, m) == DependsOnFrom(D, InSetDeps(D, m))

HasCycle(D) == \E m \in DOMAIN D : m \in DependsOn(D, m)

Places(phases, m) ==
    {<<i, j>> \in (DOMAIN phases) \X ModuleNames :
        j \in DOMAIN phases[i] /\ phases[i][j] = m}

IsPartition(phases, S) ==
    /\ \A m \in S : Cardinality(Places(phases, m)) = 1
    /\ \A i \in DOMAIN phases : Range(phases[i]) \subseteq S

PhaseOf(phases, m) == CHOOSE i \in DOMAIN phases : m \in Range(phases[i])

DepsInEarlierPhases(phases, D) ==
    \A m \in DOMAIN D : \A d \in InSetDeps(D, m) : PhaseOf(phases, d) < PhaseOf(phases, m)

\* C1: for a module set without dependency cycles, the phases of both resolvers
\* partition the module set and every module lies in a phase strictly later than
\* the phase of each of its in-set dependencies.
C1_AcyclicPhases ==
    /\ (calls >= 1 /\ ~HasCycle(ModuleDeps(modules))) =>
          /\ IsPartition(execution_order, DOMAIN modules)
          /\ DepsInEarlierPhases(execution_order, ModuleDeps(modules))
          /\ returned_plan = execution_order
    /\ (orch_called /\ ~HasCycle(modules_specs)) =>
          /\ IsPartition(orch_phases, DOMAIN modules_specs)
          /\ DepsInEarlierPhases(orch_phases, modules_specs)

C1_Witness ==
    /\ calls >= 1
    /\ orch_called
    /\ ~HasCycle(ModuleDeps(modules))
    /\ Len(execution_order) = 3
    /\ Len(orch_phases) = 3
    /\ \E m \in DOMAIN modules : 0 \in Range(modules[m].dependencies)

\* C2: for a module set with a dependency cycle, the resolver leaves its loop
\* within |modules|+1 iterations with every module in exactly one phase, and every
\* phase forced by a cycle break holds exactly one module.
C2_CyclicPhases ==
    (calls >= 1 /\ HasCycle(ModuleDeps(modules))) =>
        /\ iteration <= Cardinality(DOMAIN modules) + 1
        /\ IsPartition(execution_order, DOMAIN modules)
        /\ forced_phases # {}
        /\ \A p \in forced_phases :
              p \in DOMAIN execution_order /\ Len(execution_order[p]) = 1

C2_Witness ==
    /\ calls >= 1
    /\ HasCycle(ModuleDeps(modules))
    /\ Cardinality(DOMAIN modules) = 3
    /\ Cardinality(forced_phases) = 2
    /\ \E p \in DOMAIN execution_order : p \notin forced_phases

\* the dependency chains of a module set: each element depends on the next
Chains(D) ==
    UNION {{p \in [1..n -> DOMAIN D] :
               /\ NoDup(p)
               /\ \A i \in 1..(n - 1) : p[i + 1] \in Range(D[p[i]])} :
           n \in 1..Cardinality(DOMAIN D)}

IndexIn(s, x) == CHOOSE i \in DOMAIN s : s[i] = x

\* p is met before q by the search: an earlier start module, or at the first
\* place where they differ an earlier entry of the dependency list
MetBefore(D, p, q) ==
    \/ p[1] < q[1]
    \/ /\ p[1] = q[1]
       /\ \E k \in 2..Len(p) :
             /\ \A i \in 1..(k - 1) : p[i] = q[i]
             /\ p[k] # q[k]
             /\ IndexIn(D[p[k - 1]], p[k]) < IndexIn(D[p[k - 1]], q[k])

\* C6: the critical path is a dependency chain of the module set, no chain is
\* longer, among the chains of its length it is the first one met, and for the
\* linear chain 3 -> 2 -> 1 it is <<3, 2, 1>>.
C6_CriticalPath ==
    calls >= 1 =>
        LET D == ModuleDeps(modules)
        IN /\ critical_path \in Chains(D)
           /\ \A p \in Chains(D) : Len(p) <= Len(critical_path)
           /\ \A p \in Chains(D) :
                 (Len(p) = Len(critical_path) /\ p # critical_path)
                    => MetBefore(D, critical_path, p)
           /\ D = <<<<>>, <<1>>, <<2>>>> => critical_path = <<3, 2, 1>>

C6_Witness ==
    /\ calls >= 1
    /\ ModuleDeps(modules) = <<<<>>, <<1>>, <<2>>>>
    /\ critical_path = <<3, 2, 1>>

\* C7: a second call of the resolver on the same module specs leaves the phases
\* and the critical path as the first call computed them.
C7_Idempotent ==
    calls >= 2 =>
        /\ execution_order = prev_execution_order
        /\ critical_path = prev_critical_path

C7_Witness ==
    /\ calls >= 2
    /\ HasCycle(ModuleDeps(modules))
    /\ Len(execution_order) = 3
    /\ \E m \in DOMAIN modules : Len(modules[m].blockers) >= 2

\* ------------------------------------------------------------ task plans
TaskTypes(plan) == [i \in DOMAIN plan |-> plan[i].task_type]

Launched(i) == co[i] \in {"awaiting", "returned", "raised"}

TaskStatus(id) == tasks[TaskIndex(id)].status

DepsCompleted(task) ==
    \A k \in DOMAIN task.dependencies : TaskStatus(task.dependencies[k]) = "completed"

\* C3: a task of the round in flight has been launched only if every task of its
\* dependency list is completed (and not failed).
C3_LaunchedAfterSuccessfulDeps ==
    \A i \in DOMAIN co :
       Launched(i) => DepsCompleted(tasks[TaskIndex(batch_tasks[i])])

\* C4: a task that depends on a failed task never becomes ready: it stays pending
\* and is never made part of a batch nor counted in completed_tasks.
C4_DependentsOfFailedStayPending ==
    \A t \in DOMAIN tasks : \A d \in DOMAIN tasks :
       (/\ tasks[t].status = "failed"
        /\ tasks[t].id \in Range(tasks[d].dependencies))
       => /\ tasks[d].status = "pending"
          /\ tasks[d].id \notin Range(batch_tasks)
          /\ tasks[d].id \notin completed_tasks

\* C5: when execute_module has returned after some generation call failed, every
\* task whose own generation call did not fail and whose dependencies all
\* completed is completed itself.
C5_FailureIsolated ==
    (exec_pc = "done" /\ gen_failed # {})
    => \A t \in DOMAIN tasks :
          (tasks[t].id \notin gen_failed /\ DepsCompleted(tasks[t]))
          => tasks[t].status = "completed"

\* C8: the plan built for a backend module has the task categories design,
\* implement, test, review in this order, one task each, and the implement task
\* lists the design task as a dependency.
C8_BackendPlan ==
    (exec_pc \notin {"idle", "start"} /\ determine_module_type(agents) = "backend")
    => /\ TaskTypes(tasks) = <<"design", "implement", "test", "review">>
       /\ "design" \in Range(tasks[2].dependencies)

\* ------------------------------------------------------------ project execution
ProjPhaseOf(m) == CHOOSE k \in DOMAIN returned_plan : m \in Range(returned_plan[k])

Started(m) == mod_exec[m] # "not_started"

ModuleFailed == \E m \in DOMAIN mod_exec : mod_exec[m] = "raised"

\* C10: when a module execution has failed, no module of a later phase and no
\* global QA is started, and execute_project ends by returning False with the
\* project in status FAILED.
C10_ModuleFailureFailsRun ==
    ModuleFailed
    => /\ proj_pc # "global_qa"
       /\ \A m \in DOMAIN mod_exec : \A n \in DOMAIN mod_exec :
             (mod_exec[m] = "raised" /\ ProjPhaseOf(m) < ProjPhaseOf(n)) => ~Started(n)
       /\ proj_pc = "done" => (project_status = "failed" /\ exec_result = "false")

\* execute_project has returned after a module of the first of several phases
\* failed while another module of this phase succeeded
C10_Witness ==
    /\ proj_pc = "done"
    /\ Len(returned_plan) >= 2
    /\ \E m, n \in Range(returned_plan[1]) :
          mod_exec[m] = "raised" /\ mod_exec[n] = "returned"
    /\ exec_result = "false"
    /\ \E m \in DOMAIN project_agents : project_agents[m] > 0

\* ------------------------------------------------------------ concurrency
InFlight == {i \in DOMAIN co : co[i] = "awaiting"}

AllTaskIds == {tasks[t].id : t \in DOMAIN tasks}

\* C11: a round launches at most max_concurrent_tasks tasks, so at most that many
\* are in flight at once, and a ready task left out of a round for the limit has
\* been launched in a later round when the plan has been executed.
C11_ConcurrencyLimit ==
    /\ Len(batch_tasks) <= max_concurrent
    /\ Cardinality(InFlight) <= max_concurrent
    /\ exec_pc \in {"return", "done"} => (deferred \subseteq completed_tasks
                                          /\ completed_tasks = AllTaskIds)

\* the plan has been executed, a ready task had to wait for the limit and has
\* completed in a later round
C11_Witness ==
    /\ exec_pc = "done"
    /\ \E id \in deferred : TaskStatus(id) = "completed"

TasksInProgressOf(a) ==
    {t \in DOMAIN tasks : tasks[t].status = "in_progress" /\ tasks[t].agent_id = <<a>>}

\* C12: an agent has at most one in_progress task at any time, and it is working
\* exactly while it has one.
C12_AgentMutualExclusion ==
    \A a \in DOMAIN agents :
       /\ Cardinality(TasksInProgressOf(a)) <= 1
       /\ (agents[a].status = "working") <=> (TasksInProgressOf(a) # {})

\* two tasks of one batch are bound to the same agent: the first is in progress
\* on it and the second has been launched and refused
C12_Witness ==
    /\ exec_pc = "gather"
    /\ \E i, j \in DOMAIN co :
          /\ i < j
          /\ tasks[TaskIndex(batch_tasks[i])].agent_id = tasks[TaskIndex(batch_tasks[j])].agent_id
          /\ co[i] = "awaiting"
          /\ co[j] = "raised"
          /\ tasks[TaskIndex(batch_tasks[i])].status = "in_progress"

\* C13: when execute_project has ended and no module execution failed, every
\* module has been executed, True has been returned and the project is COMPLETED.
C13_ProjectCompletes ==
    (proj_pc = "done" /\ ~ModuleFailed)
    => /\ \A m \in DOMAIN mod_exec : mod_exec[m] = "returned"
       /\ exec_result = "true"
       /\ project_status = "completed"

\* ------------------------------------------------------------ router
FreeTier(n) == agent_capabilities[n].cost_tier = 0

PremiumTier(n) == agent_capabilities[n].cost_tier \in {2, 3}

Specialized(n, task_type) == task_type \in agent_capabilities[n].specializations

\* C14: for a devops task with cost_optimized the selected agent is a free-tier
\* agent specialized in devops when the table has one; for a task of critical
\* complexity with quality_first the selected agent is never a free-tier agent
\* whose quality score for the task type is lower than that of a medium- or
\* high-tier agent.
C14_RouterSelection ==
    selection # <<>>
    => /\ (/\ selection.task.task_type = "devops"
           /\ selection.task.budget_preference = "cost_optimized"
           /\ \E n \in Range(agent_names) : FreeTier(n) /\ Specialized(n, "devops"))
          => (FreeTier(selection.model_name) /\ Specialized(selection.model_name, "devops"))
       /\ (/\ selection.task.complexity = "CRITICAL"
           /\ selection.task.budget_preference = "quality_first"
           /\ FreeTier(selection.model_name))
          => \A n \in Range(agent_names) :
                PremiumTier(n)
                => quality_score(n, selection.task.task_type, "CRITICAL")
                      <= selection.quality_score

\* a critical frontend task with quality_first went to a medium-tier agent although
\* free-tier agents are cheaper, then a devops task with cost_optimized went to the
\* free-tier agent specialized in devops
C14_Witness ==
    /\ prev_selection # <<>>
    /\ prev_selection.task = [task_type |-> "frontend_development", complexity |-> "CRITICAL",
                              budget_preference |-> "quality_first"]
    /\ PremiumTier(prev_selection.model_name)
    /\ \E n \in Range(agent_names) :
          FreeTier(n) /\ quality_score(n, "frontend_development", "CRITICAL")
                            < prev_selection.quality_score
    /\ selection.task.task_type = "devops"
    /\ selection.task.budget_preference = "cost_optimized"
    /\ selection.model_name = "qwen2.5-coder:7b"

SameModelMoreTokens(a, b) ==
    /\ a # <<>> /\ b # <<>>
    /\ a.model = b.model
    /\ a.tokens <= b.tokens

\* C15: of two estimates for the same agent the one for more tokens is not lower,
\* the estimate of a free-tier agent is zero, and an unknown agent name gets the
\* error value.
C15_CostEstimate ==
    /\ (SameModelMoreTokens(prev_estimate, last_estimate)
        /\ last_estimate.result # <<>>)
       => prev_estimate.result[1] <= last_estimate.result[1]
    /\ (SameModelMoreTokens(last_estimate, prev_estimate)
        /\ last_estimate.result # <<>>)
       => last_estimate.result[1] <= prev_estimate.result[1]
    /\ last_estimate # <<>>
       => /\ (last_estimate.model \in DOMAIN agent_capabilities
              /\ FreeTier(last_estimate.model)) => last_estimate.result = <<0>>
          /\ (last_estimate.model \notin DOMAIN agent_capabilities)
                <=> (last_estimate.result = <<>>)

\* a medium-tier agent was given a higher estimate for more tokens than before
C15_Witness ==
    /\ prev_estimate # <<>> /\ last_estimate # <<>>
    /\ prev_estimate.model = "claude-3-5-sonnet"
    /\ last_estimate.model = "claude-3-5-sonnet"
    /\ prev_estimate.tokens < last_estimate.tokens
    /\ prev_estimate.result[1] < last_estimate.result[1]

\* ------------------------------------------------------------ module state machine claims
\* the transitions of the module state machine
AllowedTransitions ==
    {<<"planned", "ready">>, <<"ready", "in_progress">>, <<"in_progress", "completed">>,
     <<"in_progress", "failed">>, <<"in_progress", "waiting_dependency">>,
     <<"in_progress", "cancelled">>, <<"in_progress", "paused">>, <<"paused", "in_progress">>}

\* C16: the status of a module changes only along the transitions of the module
\* state machine (planned to ready, ready to in_progress, in_progress to completed,
\* failed, waiting_dependency or cancelled, paused entered from and left to
\* in_progress); no call moves a planned, completed or failed module directly
\* into in_progress
C16_StatusTransitions ==
    [][\A name \in DOMAIN modules :
          modules'[name].status # modules[name].status
             => <<modules[name].status, modules'[name].status>> \in AllowedTransitions]_vars

\* the dependencies of a module that are modules of the project are all completed
InSetDepsCompleted(mods, name) ==
    \A dep \in Range(mods[name].dependencies) \cap DOMAIN mods : mods[dep].status = "completed"

\* C17: a module is moved to ready only when all its in-set dependencies are
\* completed (at registration and in every later call), and the call that
\* completes the last outstanding in-set dependency of a planned or
\* waiting_dependency module moves that module to ready
C17_ReadyWhenDepsCompleted ==
    /\ \A name \in DOMAIN modules :
          modules[name].status = "ready" => InSetDepsCompleted(modules, name)
    /\ [][\A name \in DOMAIN modules :
             /\ (modules[name].status # "ready" /\ modules'[name].status = "ready")
                   => InSetDepsCompleted(modules', name)
             /\ (/\ modules[name].status \in {"planned", "waiting_dependency"}
                 /\ ~InSetDepsCompleted(modules, name)
                 /\ InSetDepsCompleted(modules', name))
                   => modules'[name].status = "ready"]_vars

\* a module with two in-set dependencies is ready after the update that completed
\* the second of them
C17_Witness ==
    /\ last_op # <<>>
    /\ last_op.op = "update"
    /\ last_op.module \in DOMAIN modules
    /\ modules[last_op.module].status = "completed"
    /\ \E name \in DOMAIN modules :
          /\ modules[name].status = "ready"
          /\ last_op.module \in Range(modules[name].dependencies)
          /\ Cardinality(Range(modules[name].dependencies) \cap DOMAIN modules) = 2
          /\ InSetDepsCompleted(modules, name)

\* the step is a call of start_module_execution
StartStep == last_op'.op = "start"

\* C18: start_module_execution moves a ready module to in_progress and returns True
\* only if all its in-set dependencies are completed at the time of the call; if
\* they are not, the module becomes waiting_dependency and False is returned; for
\* a module that is unknown or not ready nothing changes and False is returned
C18_StartChecksDependencies ==
    [][StartStep =>
          LET name == last_op'.module
          IN IF name \notin DOMAIN modules \/ modules[name].status # "ready"
             THEN modules' = modules /\ last_op'.returned = FALSE
             ELSE /\ \A other \in DOMAIN modules \ {name} : modules'[other] = modules[other]
                  /\ IF InSetDepsCompleted(modules, name)
                     THEN modules'[name].status = "in_progress" /\ last_op'.returned = TRUE
                     ELSE /\ modules'[name].status = "waiting_dependency"
                          /\ last_op'.returned = FALSE]_vars

\* a ready module whose dependency is no longer completed was started: it is
\* waiting_dependency and False was returned
C18_Witness ==
    /\ last_op # <<>>
    /\ last_op.op = "start"
    /\ last_op.returned = FALSE
    /\ last_op.module \in DOMAIN modules
    /\ modules[last_op.module].status = "waiting_dependency"
    /\ ~InSetDepsCompleted(modules, last_op.module)

\* the step is a call of fail_module on a module that is in progress
FailStep == last_op'.op = "fail" /\ last_op'.was = "in_progress"

\* the marker dependency_failed:name
FailureMarker(name) == 0 - name

\* C19: when fail_module is called on an in-progress module, the module becomes
\* failed, the marker naming it is appended to the blockers of every module that
\* lists it as a dependency and is planned or ready, and the blockers of every
\* other module are left as they were
C19_FailureMarksDependents ==
    [][FailStep =>
          LET failed == last_op'.module
          IN /\ modules'[failed].status = "failed"
             /\ \A name \in DOMAIN modules :
                   IF /\ failed \in Range(modules[name].dependencies)
                      /\ modules[name].status \in {"planned", "ready"}
                   THEN modules'[name].blockers
                           = Append(modules[name].blockers, FailureMarker(failed))
                   ELSE modules'[name].blockers = modules[name].blockers]_vars

\* an in-progress module with two dependents has failed: the planned one carries
\* the marker, the one in progress does not
C19_Witness ==
    /\ last_op # <<>>
    /\ last_op.op = "fail"
    /\ last_op.was = "in_progress"
    /\ modules[last_op.module].status = "failed"
    /\ \E marked, other \in DOMAIN modules :
          /\ last_op.module \in Range(modules[marked].dependencies)
          /\ last_op.module \in Range(modules[other].dependencies)
          /\ modules[marked].status = "planned"
          /\ modules[marked].blockers = <<FailureMarker(last_op.module)>>
          /\ modules[other].status = "in_progress"
          /\ modules[other].blockers = <<>>

\* the step is a call of resume_module on a module that was paused while in
\* progress and not resumed since
ResumeAfterPause ==
    /\ last_op'.op = "resume"
    /\ last_op'.module \in DOMAIN modules
    /\ pause_log[last_op'.module] # <<>>

CompletedIds == {tasks[t].id : t \in {u \in DOMAIN tasks : tasks[u].status = "completed"}}

\* C21: when no task is ready while tasks of the plan are not completed, the loop
\* of _execute_task_plan is left, the results returned are those of the tasks
\* that completed, and the caller gets a result, not an exception; the loop ends
\* for every task list
C21_DeadlockStopsPlan ==
    /\ [](exec_pc \in {"return", "done"} => Range(results) = CompletedIds)
    /\ [](exec_pc = "done" => final_result = "completed")
    /\ <>(exec_pc = "done")

\* the plan has ended with a task completed and another never launched, because
\* it depends on itself, on a task that depends on it, or on an id outside the plan
C21_Witness ==
    /\ exec_pc = "done"
    /\ final_result = "completed"
    /\ results # <<>>
    /\ \E t \in DOMAIN tasks : tasks[t].status = "pending" /\ tasks[t].id \notin completed_tasks

\* C22: the plan built for a module has one task per entry of the sequence of
\* its module type, in the order of the sequence, whether or not an idle agent
\* was found for the task
C22_OneTaskPerSequenceEntry ==
    exec_pc \notin {"idle", "start"}
       => TaskTypes(tasks) = task_sequences[determine_module_type(agents)]

\* C23: a task whose agent is not idle when the task is launched is not failed (it
\* stays pending for a later round): with the agents registered in the spawner
\* of the orchestrator, only a task whose generation raised is failed
C23_UnavailableAgentNotFailed ==
    registered
       => \A t \in DOMAIN tasks : tasks[t].status = "failed" => tasks[t].id \in gen_failed

\* C24: an agent that has no task in progress is idle: when the task it was
\* working on has ended, whether completed or failed, it can be bound again
C24_AgentReleased ==
    \A a \in DOMAIN agents : TasksInProgressOf(a) = {} => agents[a].status = "idle"

\* the step is a call of terminate_agent on an agent of the spawner
TerminateStep == terminated' # terminated

\* C25: cancellation marks every task of the cancelled agent that is pending or
\* in progress as cancelled, leaves its completed and failed tasks as they are,
\* and leaves the agent idle and known to the spawner, free for another task
C25_CancelMarksAndReleases ==
    [][TerminateStep =>
          \A agent_id \in terminated' \ terminated :
             /\ \A t \in DOMAIN tasks :
                   tasks[t].agent_id = <<agent_id>>
                      => tasks'[t].status =
                            IF tasks[t].status \in {"pending", "in_progress"}
                            THEN "cancelled" ELSE tasks[t].status
             /\ agents'[agent_id].status = "idle"]_vars

\* ------------------------------------------------------------ external dependencies
\* the module specs without the dependency names that are not modules of the set
StripExternal(specs) ==
    [name \in DOMAIN specs |-> SelectSeq(specs[name], LAMBDA dep : dep \in DOMAIN specs)]

HasExternal(name) == \E dep \in Range(modules[name].dependencies) : dep \notin DOMAIN modules

\* C26: a dependency name outside the module set is treated as satisfied: the
\* phases of the resolver, and the phases it had to force, are those of the same
\* module set without the outside names; after registration a module with no
\* in-set dependency is ready; a planned or waiting_dependency module with outside
\* names becomes ready when its last in-set dependency is completed; and the
\* start of a ready module with outside names whose in-set dependencies are
\* completed puts it in progress and returns True
C26_ExternalDepsSatisfied ==
    /\ [](/\ execution_order = RegisteredModules(StripExternal(modules_specs)).phases
          /\ forced_phases = RegisteredModules(StripExternal(modules_specs)).forced)
    /\ [](ops = 0 => \A name \in DOMAIN modules :
                        Range(modules[name].dependencies) \cap DOMAIN modules = {}
                           => modules[name].status = "ready")
    /\ [][\A name \in DOMAIN modules :
             HasExternal(name) =>
                /\ (/\ modules[name].status \in {"planned", "waiting_dependency"}
                    /\ ~InSetDepsCompleted(modules, name)
                    /\ InSetDepsCompleted(modules', name))
                      => modules'[name].status = "ready"
                /\ (/\ StartStep
                    /\ last_op'.module = name
                    /\ modules[name].status = "ready"
                    /\ InSetDepsCompleted(modules, name))
                      => modules'[name].status = "in_progress" /\ last_op'.returned]_vars

\* a module that names a module of the set and a module outside of it was started
\* after its in-set dependency completed: it is in progress
C26_Witness ==
    /\ last_op # <<>>
    /\ last_op.op = "start"
    /\ last_op.returned
    /\ HasExternal(last_op.module)
    /\ Range(modules[last_op.module].dependencies) \cap DOMAIN modules # {}
    /\ InSetDepsCompleted(modules, last_op.module)
    /\ modules[last_op.module].status = "in_progress"
    /\ Len(execution_order) = 2

\* ------------------------------------------------------------ cycle breaking
\* the modules of the phases before phase p
PlacedBefore(p) == UNION {Range(execution_order[q]) : q \in 1..(p - 1)}

\* the in-set dependencies of a module that are in no phase before phase p
UnmetBefore(p, name) ==
    SelectSeq(modules[name].dependencies,
              LAMBDA dep : dep \in DOMAIN modules /\ dep \notin PlacedBefore(p))

\* C27: a phase forced by a cycle break holds one module, the module with the
\* fewest unmet in-set dependencies among the modules not yet placed, the first
\* in name order among those with that number, and after the first registration
\* the blockers of that module are its in-set dependencies unmet at that point
C27_CycleBreakByName ==
    calls >= 1 =>
       \A p \in forced_phases :
          LET chosen == execution_order[p][1]
          IN /\ Len(execution_order[p]) = 1
             /\ \A name \in DOMAIN modules \ PlacedBefore(p) :
                   \/ Len(UnmetBefore(p, chosen)) < Len(UnmetBefore(p, name))
                   \/ /\ Len(UnmetBefore(p, chosen)) = Len(UnmetBefore(p, name))
                      /\ chosen <= name
             /\ calls = 1 => modules[chosen].blockers = UnmetBefore(p, chosen)

\* ------------------------------------------------------------ independence in a phase
\* C28 as stated: no module of a phase lists a module of that same phase, itself
\* included, as a dependency
C28_PhaseIndependent ==
    calls >= 1 =>
       \A p \in DOMAIN execution_order :
          \A name, dep \in Range(execution_order[p]) : dep \notin Range(modules[name].dependencies)

\* C28: no module of a phase lists another module of that same phase as a
\* dependency, and a module that lists itself is alone in a phase forced by a
\* cycle break
C28_PhaseIndependentOfOthers ==
    calls >= 1 =>
       \A p \in DOMAIN execution_order :
          \A name, dep \in Range(execution_order[p]) :
             dep \in Range(modules[name].dependencies)
                => name = dep /\ p \in forced_phases /\ Len(execution_order[p]) = 1

\* a plan with a phase of two modules and a forced phase whose module lists itself
C28_Witness ==
    /\ calls >= 1
    /\ \E p \in DOMAIN execution_order : Len(execution_order[p]) = 2
    /\ \E p \in forced_phases :
          execution_order[p][1] \in Range(modules[execution_order[p][1]].dependencies)

\* ------------------------------------------------------------ no retry
\* C29: in one run of a task plan no task is handed to _execute_single_task more
\* than once, whether it completed, failed or was refused its agent
C29_LaunchedAtMostOnce == NoDup(launches)

\* a plan has ended in which a task failed in its generation, another was refused
\* its agent, and each task of the plan was launched once
C29_Witness ==
    /\ exec_pc = "done"
    /\ gen_failed # {}
    /\ \E t \in DOMAIN tasks : tasks[t].status = "failed" /\ tasks[t].id \notin gen_failed
    /\ Len(launches) = Len(tasks)
    /\ Range(launches) = AllTaskIds

\* ------------------------------------------------------------ earlier registrations
\* C30: the phases create_execution_plan(specs) returns hold each module name of
\* specs exactly once and no other name, whatever modules the manager held before
C30_PlanOfSpecsOnly ==
    calls >= 1 => IsPartition(returned_plan, DOMAIN modules_specs)

\* ------------------------------------------------------------ module result
\* C31: execute_module reports the module completed (result status completed,
\* execution status completed, progress 100) only if every task of the plan
\* completed; with a failed task or a task never launched it reports a failure
C31_CompletedOnlyIfAllTasksCompleted ==
    (/\ exec_pc = "done"
     /\ final_result = "completed"
     /\ execution_state = [status |-> "completed", progress |-> 100])
    => \A t \in DOMAIN tasks : tasks[t].status = "completed"

\* ------------------------------------------------------------ built plans
\* C32: for every module type the plan built by _create_module_task_plan is
\* self-contained and acyclic: every dependency id of a task is the id of a task
\* of the plan that comes earlier in it; a run of the plan in which no task fails
\* does not stop on a deadlock and ends with every task of the plan completed
C32_BuiltPlanRunsThrough ==
    exec_pc \notin {"idle", "start"}
    => /\ \A t \in DOMAIN tasks : \A k \in DOMAIN tasks[t].dependencies :
             \E u \in 1..(t - 1) : tasks[u].id = tasks[t].dependencies[k]
       /\ (/\ exec_pc \in {"return", "done"}
           /\ \A t \in DOMAIN tasks : tasks[t].status # "failed")
          => /\ Cardinality(completed_tasks) = Len(tasks)
             /\ \A t \in DOMAIN tasks : tasks[t].status = "completed"

\* the plan of a fullstack module, six tasks of which test depends on three
\* earlier ones, has run to its end with every task completed
C32_Witness ==
    /\ exec_pc = "done"
    /\ TaskTypes(tasks) = task_sequences["fullstack"]
    /\ Len(tasks[5].dependencies) = 3
    /\ \A t \in DOMAIN tasks : tasks[t].status = "completed"

\* ------------------------------------------------------------ paused project
\* pause_project has returned True and resume_project has not been called since
PausedProject ==
    /\ project_status = "paused"
    /\ project_call = [op |-> "pause", returned |-> "true"]

ProjectCallStep == project_call' # project_call

\* C33: while a project is paused no new module is launched for it and its status
\* stays paused until resume_project is called; pause_project succeeds only from
\* in_progress and resume_project only from paused, and a call that returns False
\* changes nothing
C33_PausedProjectStandsStill ==
    [][/\ PausedProject
          => /\ \A m \in DOMAIN mod_exec :
                   mod_exec'[m] = "running" => mod_exec[m] = "running"
             /\ \/ project_status' = "paused"
                \/ ProjectCallStep /\ project_call'.op = "resume"
       /\ (ProjectCallStep /\ project_call'.returned # "false")
          => project_status = (IF project_call'.op = "pause" THEN "in_progress"
                               ELSE "paused")
       /\ (ProjectCallStep /\ project_call'.returned = "false")
          => UNCHANGED <<projVars, paused_executions>>]_vars

\* ------------------------------------------------------------ progress
\* C34: in every state of the module manager the progress of every module lies
\* within 0..100 and a completed module has progress 100, whatever calls of
\* update_module_progress, pause_module, resume_module and fail_module were made
C34_CompletedHasFullProgress ==
    \A name \in DOMAIN modules :
       /\ modules[name].progress >= 0
       /\ modules[name].progress <= 100
       /\ modules[name].status = "completed" => modules[name].progress = 100

\* ------------------------------------------------------------ shared resources
ReleaseStep == resource_call' # resource_call /\ resource_call'.op = "release"

\* a release by the owner of a resource that has waiting agents
HandOver(r) ==
    /\ resource_call'.op = "release"
    /\ resource_call'.resource = r
    /\ resource_call'.agent = resource_locks[r]
    /\ resource_queues[r] # <<>>
    /\ resource_locks' # resource_locks \/ resource_queues' # resource_queues

Waits(a, r) == \E k \in DOMAIN resource_queues[r] : resource_queues[r][k] = a

\* C37: when the owner releases a resource that has waiting agents, the head of
\* the queue of the resource becomes the owner and is taken off the queue, the
\* other waiting agents keeping their order; as long as owners release, every
\* waiting agent becomes the owner of the resource it waits for
C37_HeadOfQueueIsNextOwner ==
    /\ [][\A r \in Resources :
             HandOver(r) => /\ resource_locks'[r] = Head(resource_queues[r])
                            /\ resource_queues'[r] = Tail(resource_queues[r])
                            /\ resource_call'.returned]_vars
    /\ \A r \in Resources : \A a \in AgentIds :
          Waits(a, r) ~> (resource_locks[r] = a)

\* a release has handed a resource to the first of two waiting agents, and the
\* second still waits
C37_Witness ==
    /\ resource_call.op = "release"
    /\ resource_call.returned
    /\ \E r \in Resources :
          /\ r = resource_call.resource
          /\ resource_locks[r] \notin {0, resource_call.agent}
          /\ Len(resource_queues[r]) = 1
          /\ resource_queues[r][1] \notin {resource_locks[r], resource_call.agent}

\* C38: a resource has at most one owner, and the owner of a locked resource
\* changes only by a release_resource call of that owner: request_resource on a
\* locked resource returns False and leaves the owner, and release_resource by an
\* agent that does not own the resource (or on an unlocked resource) returns
\* False and leaves locks and queues as they are
C38_OwnerChangesOnlyByOwnRelease ==
    [][/\ \A r \in Resources :
             /\ resource_locks'[r] \in AgentIds \cup {0}
             /\ (resource_locks[r] # 0 /\ resource_locks'[r] # resource_locks[r])
                => resource_call' = [op |-> "release", agent |-> resource_locks[r],
                                     resource |-> r, returned |-> TRUE]
       /\ (resource_call'.op = "request" /\ resource_locks[resource_call'.resource] # 0)
          => /\ ~resource_call'.returned
             /\ resource_locks' = resource_locks
       /\ (/\ resource_call'.op = "release"
           /\ resource_locks[resource_call'.resource] # resource_call'.agent)
          => /\ ~resource_call'.returned
             /\ UNCHANGED <<resource_locks, resource_queues>>]_vars

\* an agent that does not own a locked resource with waiting agents has called
\* release_resource for it and was refused
C38_Witness ==
    /\ resource_call.op = "release"
    /\ ~resource_call.returned
    /\ resource_locks[resource_call.resource] \notin {0, resource_call.agent}
    /\ resource_queues[resource_call.resource] # <<>>

\* ------------------------------------------------------------ agent shutdown
\* C35: an agent that has shut down stays offline and accepts no further task: no
\* step, be it the end of a background task or a task_assignment message, changes
\* its status or adds a task to its active tasks
C35_OfflineIsFinal ==
    [][\A a \in AgentIds :
          agent_status[a] = "offline"
          => /\ agent_status'[a] = "offline"
             /\ TaskKeys(active_tasks'[a]) \subseteq TaskKeys(active_tasks[a])]_vars

\* C36: when an agent goes offline, through shutdown or a shutdown message, the
\* ResourceManager holds no lock owned by it: each resource it owned is unlocked
\* or handed to the agent that waited for it
C36_OfflineAgentOwnsNothing ==
    [][\A a \in AgentIds :
          (agent_status[a] # "offline" /\ agent_status'[a] = "offline")
          => \A r \in Resources : resource_locks'[r] # a]_vars

\* ------------------------------------------------------------ collaboration
\* C39: when the target has accepted a collaboration started by _initiate_collaboration,
\* the record the requester keeps of it has status active and the requester's
\* counter of successful collaborations was incremented, once the request call
\* has returned and the response was handled
C39_AcceptedCollaborationIsActive ==
    \A c \in DOMAIN protocol_collaborations :
       LET requester == protocol_collaborations[c].requester_id
       IN (/\ protocol_collaborations[c].status = "accepted"
           /\ active_collaborations[requester][c] # "none")
          => /\ active_collaborations[requester][c] = "active"
             /\ collaborations_successful[requester] >= 1

====
